---- MODULE Spec2Model ----
(***************************************************************************)
(* Model of the wire codec of the distributed imaging services             *)
(* (src/src/common/message_protocol.cpp, src/include/message_protocol.h).  *)
(*                                                                         *)
(* Representation.  A byte is a number in 0..255 and a buffer is a         *)
(* sequence of bytes; the C++ offset i is the TLA+ index i+1.  TLC's       *)
(* integers are 32-bit signed, so                                          *)
(*   - a uint32_t is a number below 2^31; every byte the model puts in a   *)
(*     message is at most 127, so that a 4-byte read at any offset, also   *)
(*     a misaligned one, stays in range;                                   *)
(*   - a uint64_t is the pair [hi, lo] of its two 32-bit halves;           *)
(*   - a float is its IEEE-754 bit pattern (writeFloat/readFloat memcpy    *)
(*     the value to and from a uint32_t).                                  *)
(* size_t is 64 bits wide: offset + data_size cannot wrap.                 *)
(***************************************************************************)
EXTENDS Integers, Sequences, FiniteSets, TLC

VARIABLES
    message,     \* the byte sequence handed to a decoder
    sent,        \* the record the encoder was called with
    mutation,    \* what was done to the encoder's output before decoding
    decoder,     \* which decoder was called: "none", "image", "processed"
    result,      \* "none", "ok" (true), "fail" (false), "crash"
    out,         \* the caller's output arguments
    trace,       \* what the decoder did: bytes read, counts declared
    now,         \* std::chrono::system_clock::now(), in ticks
    calls,       \* the encoder calls made so far, each with what it returned
    db,          \* the sqlite3 connection db_: tables, open transaction
    before,      \* the tables as they were when the last store call began
    history,     \* the storeProcessedData calls so far: arguments, return value
    last_fault,  \* where sqlite failed in the last store call
    stats,       \* what the last statistics query returned
    stage,       \* each process: position, running flag, exit code, message
    link,        \* the messages queued at each subscriber socket
    unanswered,  \* publishes nobody heard and receives nobody fed, so far
    source,      \* image_generator: position in main, g_publisher, exit code
    peer,        \* feature_extractor and data_logger: up or not, socket options
    wire,        \* the messages on their way to each subscriber
    flow,        \* what each stage has sent, received and stored so far
    inbox,       \* the receive calls of the Relay and the Sink, one by one
    cell         \* a value written by a fixed-width helper, and read back

codecVars == <<message, sent, mutation, decoder, result, out, trace>>

encoderVars == <<now, calls>>

storeVars == <<db, before, history, last_fault, stats>>

stageVars == <<stage, link, unanswered>>

pipelineVars == <<source, peer, wire, flow>>

receiveVars == <<inbox>>

helperVars == <<cell>>

vars ==
    <<codecVars, encoderVars, storeVars, stageVars, pipelineVars, receiveVars,
      helperVars>>

\* what the codec's decode path leaves alone
outsideCodec ==
    <<encoderVars, storeVars, stageVars, pipelineVars, receiveVars,
      helperVars>>

\* what a sequence of encoder calls leaves alone
outsideEncoder ==
    <<codecVars, storeVars, stageVars, pipelineVars, receiveVars,
      helperVars>>

\* what the DatabaseManager leaves alone
outsideStore ==
    <<codecVars, encoderVars, stageVars, pipelineVars, receiveVars,
      helperVars>>

\* what the three processes leave alone, the Sink's database apart
outsideStage ==
    <<codecVars, encoderVars, before, history, last_fault, stats, pipelineVars,
      receiveVars, helperVars>>

\* what the pipeline as a whole leaves alone, the clock and the Sink's
\* database apart
outsidePipeline ==
    <<codecVars, calls, before, history, last_fault, stats, stageVars,
      receiveVars, helperVars>>

\* what the receive calls leave alone
outsideReceive ==
    <<codecVars, encoderVars, storeVars, stageVars, pipelineVars, helperVars>>

\* what the fixed-width helpers leave alone
outsideHelper ==
    <<codecVars, encoderVars, storeVars, stageVars, pipelineVars, receiveVars>>

----------------------------------------------------------------------------
(* Bounds of the model *)

MaxPayloadLen == 1
MaxKeypoints == 2
MaxDescriptors == 2
MaxAppend == 1
MaxCalls == 2
MaxClock == 1
MaxStores == 2
MaxPending == 1
MaxRows == 1
MaxUnanswered == 2
MaxFrames == 2
MaxReceived == 2
MaxPrefix == 1

----------------------------------------------------------------------------
(* message_protocol.h *)

IMAGE_DATA == 1
PROCESSED_DATA == 2
HEARTBEAT == 3
SHUTDOWN == 4

\* ImageMetadata(): every field zero, filename empty
ImageMetadata ==
    [timestamp |-> [hi |-> 0, lo |-> 0], width |-> 0, height |-> 0,
     channels |-> 0, data_size |-> 0, filename |-> <<>>]

\* the smallest possible header: type, timestamp, width, height, channels,
\* data_size and the length of the filename
FixedHeaderSize == 1 + 8 + 4 + 4 + 4 + 4 + 4

\* the constant of the up-front size check of both decoders
MinMessageSize == 30

\* readString's max_length at both call sites
MaxFilenameLength == 256

\* the bytes one keypoint needs, as checked before each keypoint is read
KeyPointSize == 24

\* the bytes one descriptor float and one count need
FloatSize == 4

----------------------------------------------------------------------------
(* Writers *)

Shr(value, bits) == value \div (2 ^ bits)

\* a slip in the byte order: least significant byte first
writeUint32LittleEndian(buffer, value) ==
    buffer \o << value % 256, Shr(value, 8) % 256,
                 Shr(value, 16) % 256, Shr(value, 24) % 256 >>

writeUint32(buffer, value) ==
    buffer \o << Shr(value, 24) % 256, Shr(value, 16) % 256,
                 Shr(value, 8) % 256, value % 256 >>

\* for (i = 7; i >= 0; --i) push_back((value >> (i * 8)) & 0xFF)
writeUint64(buffer, value) ==
    LET byte(i) == IF i >= 4 THEN Shr(value.hi, (i - 4) * 8) % 256
                             ELSE Shr(value.lo, i * 8) % 256
    IN  buffer \o [k \in 1..8 |-> byte(8 - k)]

writeFloat(buffer, value) == writeUint32(buffer, value)

writeString(buffer, str) == writeUint32(buffer, Len(str)) \o str

\* the metadata block both encoders write after the type byte
writeMetadata(buffer, metadata) ==
    writeString(
        writeUint32(
            writeUint32(
                writeUint32(
                    writeUint32(
                        writeUint64(buffer, metadata.timestamp),
                        metadata.width),
                    metadata.height),
                metadata.channels),
            metadata.data_size),
        metadata.filename)

\* a slip: the message is stamped with the time of the call
serializeImageDataStamped(metadata, image_data) ==
    writeMetadata(<<IMAGE_DATA>>,
                  [metadata EXCEPT !.timestamp = [hi |-> 0, lo |-> now]])
        \o image_data

serializeImageData(metadata, image_data) ==
    writeMetadata(<<IMAGE_DATA>>, metadata) \o image_data

\* a slip in the field order: angle written before size
writeKeyPointSwapped(buffer, kp) ==
    writeUint32(
        writeFloat(
            writeFloat(
                writeFloat(
                    writeFloat(
                        writeFloat(buffer, kp.x),
                        kp.y),
                    kp.angle),
                kp.size),
            kp.response),
        kp.octave)

writeKeyPoint(buffer, kp) ==
    writeUint32(
        writeFloat(
            writeFloat(
                writeFloat(
                    writeFloat(
                        writeFloat(buffer, kp.x),
                        kp.y),
                    kp.size),
                kp.angle),
            kp.response),
        kp.octave)

RECURSIVE writeKeyPoints(_, _)
writeKeyPoints(buffer, keypoints) ==
    IF keypoints = <<>> THEN buffer
    ELSE writeKeyPoints(writeKeyPoint(buffer, Head(keypoints)), Tail(keypoints))

RECURSIVE writeDescriptors(_, _)
writeDescriptors(buffer, descriptors) ==
    IF descriptors = <<>> THEN buffer
    ELSE writeDescriptors(writeFloat(buffer, Head(descriptors)), Tail(descriptors))

serializeProcessedData(metadata, image_data, keypoints, descriptors) ==
    LET b1 == writeMetadata(<<PROCESSED_DATA>>, metadata) \o image_data
        b2 == writeKeyPoints(writeUint32(b1, Len(keypoints)), keypoints)
    IN  writeDescriptors(writeUint32(b2, Len(descriptors)), descriptors)

----------------------------------------------------------------------------
(* Readers.  data[offset] with offset >= size is undefined behaviour: the   *)
(* read yields some byte junk (or the process dies, see the decode actions) *)

At(data, offset, junk) ==
    IF offset < Len(data) THEN data[offset + 1] ELSE junk

readUint32(data, offset, junk) ==
    [value  |-> At(data, offset, junk) * 16777216
                + At(data, offset + 1, junk) * 65536
                + At(data, offset + 2, junk) * 256
                + At(data, offset + 3, junk),
     offset |-> offset + 4]

\* for (i = 0; i < 8; ++i) value = (value << 8) | data[offset + i]
readUint64(data, offset, junk) ==
    [value  |-> [hi |-> readUint32(data, offset, junk).value,
                 lo |-> readUint32(data, offset + 4, junk).value],
     offset |-> offset + 8]

readFloat(data, offset, junk) == readUint32(data, offset, junk)

\* if (length > max_length) return ""
StringTooLong(length, max_length) == length > max_length

\* extent: one past the last offset read
readString(data, offset, max_length, junk) ==
    LET l == readUint32(data, offset, junk)
        length == l.value
    IN  IF StringTooLong(length, max_length)
        THEN [value |-> <<>>, offset |-> l.offset, extent |-> l.offset]
        ELSE [value  |-> [k \in 1..length |-> At(data, l.offset + k - 1, junk)],
              offset |-> l.offset + length,
              extent |-> l.offset + length]

\* the six assignments to metadata that follow the type check
readMetadata(data, offset, junk) ==
    LET ts == readUint64(data, offset, junk)
        w  == readUint32(data, ts.offset, junk)
        h  == readUint32(data, w.offset, junk)
        c  == readUint32(data, h.offset, junk)
        ds == readUint32(data, c.offset, junk)
        fn == readString(data, ds.offset, MaxFilenameLength, junk)
    IN  [metadata |-> [timestamp |-> ts.value, width |-> w.value,
                       height |-> h.value, channels |-> c.value,
                       data_size |-> ds.value, filename |-> fn.value],
         offset |-> fn.offset,
         extent |-> fn.extent]

\* if (message.size() < 30) return false
TooShort(size) == size < MinMessageSize

\* a slip: any data message passes either decoder's type check
WrongTypeEitherData(type, expected) ==
    type # IMAGE_DATA /\ type # PROCESSED_DATA

\* if (type != MessageType::...) return false
WrongType(type, expected) == type # expected

\* if (offset + metadata.data_size > message.size()) return false
PayloadOverrun(offset, data_size, size) == offset + data_size > size

\* if (offset + 4 > message.size()) return false
CountOverrun(offset, size) == offset + FloatSize > size

\* if (offset + 24 > message.size()) return false
KeyPointOverrun(offset, size) == offset + KeyPointSize > size

\* if (offset + 4 > message.size()) return false, inside the descriptor loop
DescriptorOverrun(offset, size) == offset + FloatSize > size

Max(a, b) == IF a >= b THEN a ELSE b

NoTrace ==
    [extent |-> 0, consumed |-> -1, num_keypoints |-> -1, kp_offset |-> -1,
     num_descriptors |-> -1, desc_offset |-> -1]

\* The decoders are written as the source is: a chain of checks, each
\* returning false, with the assignments to the output arguments between
\* them.  r is the call so far: the return value, the output arguments and
\* the trace; each stage gets what the stage before it read.

\* the payload check and image_data.assign of deserializeImageData
imagePayload(msg, r, m) ==
    IF PayloadOverrun(m.offset, m.metadata.data_size, Len(msg))
    THEN [r EXCEPT !.metadata = m.metadata, !.trace.extent = m.extent]
    ELSE [r EXCEPT !.ok = TRUE,
                   !.metadata = m.metadata,
                   !.image_data = SubSeq(msg, m.offset + 1,
                                         m.offset + m.metadata.data_size),
                   !.trace.extent = Max(m.extent,
                                        m.offset + m.metadata.data_size),
                   !.trace.consumed = m.offset + m.metadata.data_size]

\* a slip: the header is decoded into metadata before the type is checked
deserializeImageDataEager(msg, metadata, image_data, junk) ==
    IF TooShort(Len(msg))
    THEN [ok |-> FALSE, metadata |-> metadata, image_data |-> image_data,
          trace |-> NoTrace]
    ELSE IF WrongType(At(msg, 0, junk), IMAGE_DATA)
    THEN [ok |-> FALSE, metadata |-> readMetadata(msg, 1, junk).metadata,
          image_data |-> image_data,
          trace |-> [NoTrace EXCEPT !.extent = 1]]
    ELSE imagePayload(msg,
                      [ok |-> FALSE, metadata |-> metadata,
                       image_data |-> image_data, trace |-> NoTrace],
                      readMetadata(msg, 1, junk))

deserializeImageData(msg, metadata, image_data, junk) ==
    IF TooShort(Len(msg))
    THEN [ok |-> FALSE, metadata |-> metadata, image_data |-> image_data,
          trace |-> NoTrace]
    ELSE IF WrongType(At(msg, 0, junk), IMAGE_DATA)
    THEN [ok |-> FALSE, metadata |-> metadata, image_data |-> image_data,
          trace |-> [NoTrace EXCEPT !.extent = 1]]
    ELSE imagePayload(msg,
                      [ok |-> FALSE, metadata |-> metadata,
                       image_data |-> image_data, trace |-> NoTrace],
                      readMetadata(msg, 1, junk))

readKeyPoint(data, offset, junk) ==
    LET x == readFloat(data, offset, junk)
        y == readFloat(data, x.offset, junk)
        s == readFloat(data, y.offset, junk)
        a == readFloat(data, s.offset, junk)
        r == readFloat(data, a.offset, junk)
        o == readUint32(data, r.offset, junk)
    IN  [value  |-> [x |-> x.value, y |-> y.value, size |-> s.value,
                     angle |-> a.value, response |-> r.value,
                     octave |-> o.value],
         offset |-> o.offset]

\* a slip: the loop is left with break where it should return false
RECURSIVE readKeyPointsBreak(_, _, _, _, _)
readKeyPointsBreak(data, offset, remaining, keypoints, junk) ==
    IF remaining = 0 \/ KeyPointOverrun(offset, Len(data))
    THEN [ok |-> TRUE, keypoints |-> keypoints, offset |-> offset]
    ELSE LET kp == readKeyPoint(data, offset, junk)
         IN  readKeyPointsBreak(data, kp.offset, remaining - 1,
                                Append(keypoints, kp.value), junk)

\* for (i = 0; i < num_keypoints; ++i) { check; read; push_back }
RECURSIVE readKeyPoints(_, _, _, _, _)
readKeyPoints(data, offset, remaining, keypoints, junk) ==
    IF remaining = 0
    THEN [ok |-> TRUE, keypoints |-> keypoints, offset |-> offset]
    ELSE IF KeyPointOverrun(offset, Len(data))
    THEN [ok |-> FALSE, keypoints |-> keypoints, offset |-> offset]
    ELSE LET kp == readKeyPoint(data, offset, junk)
         IN  readKeyPoints(data, kp.offset, remaining - 1,
                           Append(keypoints, kp.value), junk)

\* for (i = 0; i < num_descriptors; ++i) { check; push_back(readFloat) }
RECURSIVE readDescriptors(_, _, _, _, _)
readDescriptors(data, offset, remaining, descriptors, junk) ==
    IF remaining = 0
    THEN [ok |-> TRUE, descriptors |-> descriptors, offset |-> offset]
    ELSE IF DescriptorOverrun(offset, Len(data))
    THEN [ok |-> FALSE, descriptors |-> descriptors, offset |-> offset]
    ELSE LET d == readFloat(data, offset, junk)
         IN  readDescriptors(data, d.offset, remaining - 1,
                             Append(descriptors, d.value), junk)

\* the descriptor loop and return true
processedDescriptors(msg, r, nd, ds) ==
    [r EXCEPT !.ok = ds.ok,
              !.descriptors = ds.descriptors,
              !.trace.extent = Max(r.trace.extent, ds.offset),
              !.trace.consumed = IF ds.ok THEN ds.offset ELSE -1,
              !.trace.num_descriptors = nd.value,
              !.trace.desc_offset = nd.offset]

\* the check before the descriptor count, the count, descriptors.clear()
processedDescriptorCount(msg, r, offset, junk, nd) ==
    processedDescriptors(msg, r, nd,
                         readDescriptors(msg, nd.offset, nd.value, <<>>, junk))

\* the keypoint loop; keypoints.clear() came before it
processedKeyPoints(msg, r, nk, kps, junk) ==
    IF ~kps.ok \/ CountOverrun(kps.offset, Len(msg))
    THEN [r EXCEPT !.keypoints = kps.keypoints,
                   !.trace.extent = Max(r.trace.extent, kps.offset),
                   !.trace.num_keypoints = nk.value,
                   !.trace.kp_offset = nk.offset]
    ELSE processedDescriptorCount(
             msg,
             [r EXCEPT !.keypoints = kps.keypoints,
                       !.trace.extent = Max(r.trace.extent, kps.offset),
                       !.trace.num_keypoints = nk.value,
                       !.trace.kp_offset = nk.offset],
             kps.offset, junk, readUint32(msg, kps.offset, junk))

\* the keypoint count
processedKeyPointCount(msg, r, nk, junk) ==
    processedKeyPoints(msg, r, nk,
                       readKeyPoints(msg, nk.offset, nk.value, <<>>, junk),
                       junk)

\* the payload check, image_data.assign, the check before the keypoint count
processedPayload(msg, r, m, junk) ==
    IF PayloadOverrun(m.offset, m.metadata.data_size, Len(msg))
    THEN [r EXCEPT !.metadata = m.metadata, !.trace.extent = m.extent]
    ELSE IF CountOverrun(m.offset + m.metadata.data_size, Len(msg))
    THEN [r EXCEPT !.metadata = m.metadata,
                   !.image_data = SubSeq(msg, m.offset + 1,
                                         m.offset + m.metadata.data_size),
                   !.trace.extent = Max(m.extent,
                                        m.offset + m.metadata.data_size)]
    ELSE processedKeyPointCount(
             msg,
             [r EXCEPT !.metadata = m.metadata,
                       !.image_data = SubSeq(msg, m.offset + 1,
                                             m.offset + m.metadata.data_size),
                       !.trace.extent = Max(m.extent,
                                            m.offset + m.metadata.data_size)],
             readUint32(msg, m.offset + m.metadata.data_size, junk), junk)

\* keypoints.reserve / descriptors.reserve only size the vectors' storage;
\* running out of memory there is not modelled.
deserializeProcessedData(msg, metadata, image_data, keypoints, descriptors, junk) ==
    IF TooShort(Len(msg))
    THEN [ok |-> FALSE, metadata |-> metadata, image_data |-> image_data,
          keypoints |-> keypoints, descriptors |-> descriptors,
          trace |-> NoTrace]
    ELSE IF WrongType(At(msg, 0, junk), PROCESSED_DATA)
    THEN [ok |-> FALSE, metadata |-> metadata, image_data |-> image_data,
          keypoints |-> keypoints, descriptors |-> descriptors,
          trace |-> [NoTrace EXCEPT !.extent = 1]]
    ELSE processedPayload(msg,
                          [ok |-> FALSE, metadata |-> metadata,
                           image_data |-> image_data, keypoints |-> keypoints,
                           descriptors |-> descriptors, trace |-> NoTrace],
                          readMetadata(msg, 1, junk), junk)

----------------------------------------------------------------------------
(* The inputs the model draws from.  Values are chosen with pairwise       *)
(* different bytes, so that a swapped field or byte order shows.           *)

Filename(n) == [i \in 1..n |-> 97 + (i % 3)]

FilenameLengths == {0, 1, 2, MaxFilenameLength, MaxFilenameLength + 1}

Payload(n) == [i \in 1..n |-> 16 + i]

Headers ==
    { [timestamp |-> [hi |-> 2571, lo |-> 202182159], width |-> 16909060,
       height |-> 1286, channels |-> 3],
      [timestamp |-> [hi |-> 0, lo |-> 0], width |-> 2, height |-> 2,
       channels |-> 1] }

\* floats as bit patterns: 2.0, 3.0, 10.0, 45.0, 0.5, 2.5, 3.5, 0.75, 12.0, 40.0
SampleKeyPoints ==
    << [x |-> 1073741824, y |-> 1077936128, size |-> 1092616192,
        angle |-> 1110704128, response |-> 1056964608, octave |-> 2],
       [x |-> 1075838976, y |-> 1080033280, size |-> 1094713344,
        angle |-> 1109393408, response |-> 1061158912, octave |-> 3],
       [x |-> 0, y |-> 1056964608, size |-> 1073741824,
        angle |-> 0, response |-> 1077936128, octave |-> 0],
       [x |-> 1092616192, y |-> 0, size |-> 1056964608,
        angle |-> 1110704128, response |-> 0, octave |-> 1] >>

SampleDescriptors ==
    << 1056964608, 1073741824, 1077936128, 1092616192, 1110704128 >>

KeyPointLists == { SubSeq(SampleKeyPoints, 1, n) : n \in 0..MaxKeypoints }

DescriptorLists == { SubSeq(SampleDescriptors, 1, n) : n \in 0..MaxDescriptors }

Record(h, n, p) ==
    [metadata   |-> [timestamp |-> h.timestamp, width |-> h.width,
                     height |-> h.height, channels |-> h.channels,
                     data_size |-> p, filename |-> Filename(n)],
     image_data |-> Payload(p)]

\* the records the encoders are called with: data_size is the payload's
\* length
ShortRecords ==
    { Record(h, n, p) : h \in Headers, p \in 0..MaxPayloadLen,
                        n \in {k \in FilenameLengths : k <= 2} }

\* a filename at the cap and one past it
LongRecords ==
    { Record(CHOOSE h \in Headers : h.channels = 3, n, 2) :
        n \in {k \in FilenameLengths : k > 2} }

\* what an out-of-range read can yield
JunkBytes == {0, 127}

\* the bytes a corrupted position can hold
CorruptBytes == {0, 127}

\* the values the type byte is replaced by: the four kinds and others
TypeBytes == {0, IMAGE_DATA, PROCESSED_DATA, HEARTBEAT, SHUTDOWN, 5, 127}

AppendedBytes == {0, 7}

NoRecord ==
    [kind |-> "none", metadata |-> ImageMetadata, image_data |-> <<>>,
     keypoints |-> <<>>, descriptors |-> <<>>]

\* freshly constructed output arguments, as in the callers
NoOutput ==
    [metadata |-> ImageMetadata, image_data |-> <<>>, keypoints |-> <<>>,
     descriptors |-> <<>>]

----------------------------------------------------------------------------
(* The codec as a state machine: encode, damage the message, decode *)

CodecInit ==
    /\ message = <<>>
    /\ sent = NoRecord
    /\ mutation = "none"
    /\ decoder = "none"
    /\ result = "none"
    /\ out = NoOutput
    /\ trace = NoTrace

SerializeImage ==
    /\ sent.kind = "none" /\ result = "none"
    /\ \E r \in ShortRecords \cup LongRecords :
         /\ message' = serializeImageData(r.metadata, r.image_data)
         /\ sent' = [NoRecord EXCEPT !.kind = "image",
                                     !.metadata = r.metadata,
                                     !.image_data = r.image_data]
    /\ UNCHANGED <<mutation, decoder, result, out, trace>>
    /\ UNCHANGED outsideCodec

SerializeProcessed ==
    /\ sent.kind = "none" /\ result = "none"
    /\ \E r \in ShortRecords \cup LongRecords,
          k \in KeyPointLists, d \in DescriptorLists :
         /\ r \in LongRecords => Len(k) = 1 /\ Len(d) = 1
         /\ message' = serializeProcessedData(r.metadata, r.image_data, k, d)
         /\ sent' = [kind |-> "processed", metadata |-> r.metadata,
                     image_data |-> r.image_data, keypoints |-> k,
                     descriptors |-> d]
    /\ UNCHANGED <<mutation, decoder, result, out, trace>>
    /\ UNCHANGED outsideCodec

\* the transport or a peer delivers a shorter, non-empty prefix
Truncate ==
    /\ sent.kind # "none" /\ mutation = "none" /\ result = "none"
    /\ \E n \in 1..(Len(message) - 1) : message' = SubSeq(message, 1, n)
    /\ mutation' = "truncated"
    /\ UNCHANGED <<sent, decoder, result, out, trace>>
    /\ UNCHANGED outsideCodec

\* one byte after the type byte is replaced
Corrupt ==
    /\ sent.kind # "none" /\ mutation = "none" /\ result = "none"
    /\ \E i \in 2..Len(message), b \in CorruptBytes :
         /\ message[i] # b
         /\ message' = [message EXCEPT ![i] = b]
    /\ mutation' = "corrupted"
    /\ UNCHANGED <<sent, decoder, result, out, trace>>
    /\ UNCHANGED outsideCodec

\* the type byte is replaced
Retype ==
    /\ sent.kind # "none" /\ mutation = "none" /\ result = "none"
    /\ \E b \in TypeBytes :
         /\ message[1] # b
         /\ message' = [message EXCEPT ![1] = b]
    /\ mutation' = "retyped"
    /\ UNCHANGED <<sent, decoder, result, out, trace>>
    /\ UNCHANGED outsideCodec

\* bytes follow the encoder's output
Extend ==
    /\ sent.kind # "none" /\ mutation = "none" /\ result = "none"
    /\ \E n \in 1..MaxAppend, b \in AppendedBytes :
         message' = message \o [i \in 1..n |-> b]
    /\ mutation' = "extended"
    /\ UNCHANGED <<sent, decoder, result, out, trace>>
    /\ UNCHANGED outsideCodec

\* a call whose reads left the buffer may also end the process
Crashed(name) ==
    /\ decoder' = name
    /\ result' = "crash"
    /\ UNCHANGED <<message, sent, mutation, out>>

DeserializeImage ==
    /\ result = "none"
    /\ \E junk \in JunkBytes :
         LET r == deserializeImageData(message, out.metadata, out.image_data, junk)
         IN  /\ trace' = r.trace
             /\ \/ /\ decoder' = "image"
                   /\ result' = IF r.ok THEN "ok" ELSE "fail"
                   /\ out' = [out EXCEPT !.metadata = r.metadata,
                                         !.image_data = r.image_data]
                   /\ UNCHANGED <<message, sent, mutation>>
                \/ /\ r.trace.extent > Len(message)
                   /\ Crashed("image")
    /\ UNCHANGED outsideCodec

DeserializeProcessed ==
    /\ result = "none"
    /\ \E junk \in JunkBytes :
         LET r == deserializeProcessedData(message, out.metadata, out.image_data,
                                           out.keypoints, out.descriptors, junk)
         IN  /\ trace' = r.trace
             /\ \/ /\ decoder' = "processed"
                   /\ result' = IF r.ok THEN "ok" ELSE "fail"
                   /\ out' = [metadata |-> r.metadata,
                              image_data |-> r.image_data,
                              keypoints |-> r.keypoints,
                              descriptors |-> r.descriptors]
                   /\ UNCHANGED <<message, sent, mutation>>
                \/ /\ r.trace.extent > Len(message)
                   /\ Crashed("processed")
    /\ UNCHANGED outsideCodec

CodecNext ==
    \/ SerializeImage
    \/ SerializeProcessed
    \/ Truncate
    \/ Corrupt
    \/ Retype
    \/ Extend
    \/ DeserializeImage
    \/ DeserializeProcessed

----------------------------------------------------------------------------
(* The encoders called again and again while the clock runs.  Each call     *)
(* builds its result in a buffer local to the call; serializeHeartbeat is   *)
(* the one encoder that reads the clock.                                    *)

\* a time_point's count as the uint64_t handed to writeUint64
Ticks(t) == [hi |-> 0, lo |-> t]

serializeHeartbeat(app_name, clock) ==
    writeUint64(writeString(<<HEARTBEAT>>, app_name), Ticks(clock))

\* a slip: the kind is taken from the last byte
getMessageTypeAtEnd(buffer) ==
    IF buffer = <<>> THEN SHUTDOWN ELSE buffer[Len(buffer)]

\* if (message.empty()) return SHUTDOWN; return MessageType(message[0])
getMessageType(buffer) ==
    IF buffer = <<>> THEN SHUTDOWN ELSE buffer[1]

\* the arguments the encoders are called with: valid records and one whose
\* data_size is not the payload's length
EncoderRecords ==
    { Record(CHOOSE h \in Headers : h.channels = 3, n, p) :
        n \in {0, 2}, p \in {0, MaxPayloadLen} }
    \cup { [Record(CHOOSE h \in Headers : h.channels = 1, 1, 1)
              EXCEPT !.metadata.data_size = 5] }

\* no features and no descriptors, or as many as the model has
EncoderFeatures ==
    { [keypoints |-> SubSeq(SampleKeyPoints, 1, n),
       descriptors |-> SubSeq(SampleDescriptors, 1, m)] :
        n \in {0, MaxKeypoints}, m \in {0, MaxDescriptors} }

Call(fn, args, buffer) ==
    [fn |-> fn, args |-> args, at |-> now, buffer |-> buffer]

EncoderInit ==
    /\ now = 0
    /\ calls = <<>>

\* time passes between calls
Tick ==
    /\ now < MaxClock
    /\ now' = now + 1
    /\ UNCHANGED calls
    /\ UNCHANGED outsideEncoder

CallSerializeImageData ==
    /\ Len(calls) < MaxCalls
    /\ \E r \in EncoderRecords :
         calls' = Append(calls,
                         Call("serializeImageData",
                              [NoRecord EXCEPT !.kind = "image",
                                               !.metadata = r.metadata,
                                               !.image_data = r.image_data],
                              serializeImageData(r.metadata, r.image_data)))
    /\ UNCHANGED now
    /\ UNCHANGED outsideEncoder

CallSerializeProcessedData ==
    /\ Len(calls) < MaxCalls
    /\ \E r \in EncoderRecords, f \in EncoderFeatures :
         /\ (f.keypoints = <<>>) <=> (f.descriptors = <<>>)
         /\ calls' = Append(calls,
                            Call("serializeProcessedData",
                                 [kind |-> "processed",
                                  metadata |-> r.metadata,
                                  image_data |-> r.image_data,
                                  keypoints |-> f.keypoints,
                                  descriptors |-> f.descriptors],
                                 serializeProcessedData(r.metadata, r.image_data,
                                                        f.keypoints,
                                                        f.descriptors)))
    /\ UNCHANGED now
    /\ UNCHANGED outsideEncoder

CallSerializeHeartbeat ==
    /\ Len(calls) < MaxCalls
    /\ calls' = Append(calls,
                       Call("serializeHeartbeat",
                            [NoRecord EXCEPT !.kind = "heartbeat",
                                             !.metadata.filename = Filename(2)],
                            serializeHeartbeat(Filename(2), now)))
    /\ UNCHANGED now
    /\ UNCHANGED outsideEncoder

EncoderNext ==
    \/ Tick
    \/ CallSerializeImageData
    \/ CallSerializeProcessedData
    \/ CallSerializeHeartbeat

----------------------------------------------------------------------------
(* DatabaseManager (src/src/data_logger/main.cpp, lines 165-430).           *)
(*                                                                          *)
(* The sqlite3 connection is the tables this connection reads, whether a    *)
(* transaction is open, and the tables as they were when it was opened.     *)
(* BEGIN, COMMIT and ROLLBACK follow SQLite's documentation; ROLLBACK of an *)
(* open transaction always takes effect.  A uint32_t of the caller is the   *)
(* pair [top, rest] of its highest bit and its low 31 bits, a uint64_t the  *)
(* pair [hi, lo] of two such halves.                                        *)

\* the number n as a uint32_t
Uint32(n) == [top |-> 0, rest |-> n]

\* an ImageMetadata as the codec has it, as the argument of the store
Widen(metadata) ==
    [timestamp |-> [hi |-> Uint32(metadata.timestamp.hi),
                    lo |-> Uint32(metadata.timestamp.lo)],
     width     |-> Uint32(metadata.width),
     height    |-> Uint32(metadata.height),
     channels  |-> Uint32(metadata.channels),
     data_size |-> Uint32(metadata.data_size),
     filename  |-> metadata.filename]

\* sqlite3_bind_int(stmt, n, <uint32_t>): the argument is converted to int
ToInt(u) == IF u.top = 0 THEN u.rest ELSE (u.rest - 2147483647) - 1

\* sqlite3_bind_int64(stmt, 1, <uint64_t>): converted to sqlite3_int64, kept
\* here as its signed high half and its unsigned low half
ToInt64(u) == [hi |-> ToInt(u.hi), lo |-> u.lo]

\* sqlite3_bind_text(stmt, 2, c_str(), -1, ...): the text ends at the first
\* zero byte
RECURSIVE BindText(_)
BindText(str) ==
    IF str = <<>> \/ Head(str) = 0 THEN <<>>
    ELSE <<Head(str)>> \o BindText(Tail(str))

\* sqlite3_bind_blob(stmt, 7, data(), size(), ...): a null pointer binds
\* NULL; data() of an empty vector that owns no storage is null
BindBlob(data, allocated) ==
    [null |-> (data = <<>> /\ ~allocated), bytes |-> data]

\* sizeof(float)
SizeofFloat == 4

\* the three tables and the AUTOINCREMENT counters; statements is the record
\* of the SQL statements of the transaction that wrote them last
EmptyTables ==
    [images |-> <<>>, keypoints |-> <<>>, descriptors |-> <<>>,
     sqlite_sequence |-> [images |-> 0, keypoints |-> 0, descriptors |-> 0],
     statements |-> <<>>]

\* after initialize() on a new file: the three tables exist and are empty
NewDatabase == [tables |-> EmptyTables, in_txn |-> FALSE, saved |-> EmptyTables]

NoFault == [at |-> "none", index |-> 0, auto |-> FALSE]

\* executeSql("BEGIN TRANSACTION;")
Begin(conn) ==
    [conn EXCEPT !.in_txn = TRUE, !.saved = conn.tables,
                 !.tables.statements = <<"BEGIN">>]

\* executeSql("COMMIT;") that succeeded
Commit(conn) ==
    [conn EXCEPT !.in_txn = FALSE, !.tables.statements = Append(@, "COMMIT")]

\* a slip: the transaction is ended but what it wrote is kept
RollbackKeepingRows(conn) == [conn EXCEPT !.in_txn = FALSE]

\* executeSql("ROLLBACK;"): with no transaction open it fails, and the
\* caller ignores that
Rollback(conn) ==
    IF conn.in_txn
    THEN [conn EXCEPT !.tables = conn.saved, !.in_txn = FALSE]
    ELSE conn

\* a statement failed; for some errors SQLite has then rolled the whole
\* transaction back by itself
StepFailed(conn, fault) == IF fault.auto THEN Rollback(conn) ELSE conn

\* a slip: a row of the same filename is replaced, as under a UNIQUE index
\* with INSERT OR REPLACE
InsertImageReplacing(conn, metadata, blob) ==
    LET id == conn.tables.sqlite_sequence.images + 1
        row == [id |-> id, timestamp |-> ToInt64(metadata.timestamp),
                filename |-> BindText(metadata.filename),
                width |-> ToInt(metadata.width),
                height |-> ToInt(metadata.height),
                channels |-> ToInt(metadata.channels),
                data_size |-> ToInt(metadata.data_size),
                image_data |-> blob.bytes]
        kept == SelectSeq(conn.tables.images,
                          LAMBDA r : r.filename # row.filename)
    IN  [conn EXCEPT !.tables.images = Append(kept, row),
                     !.tables.sqlite_sequence.images = id,
                     !.tables.statements = Append(@, "INSERT INTO images")]

\* INSERT INTO images (...) VALUES (?, ?, ?, ?, ?, ?, ?) with the bound
\* values; id is AUTOINCREMENT
InsertImage(conn, metadata, blob) ==
    LET id == conn.tables.sqlite_sequence.images + 1
        row == [id |-> id, timestamp |-> ToInt64(metadata.timestamp),
                filename |-> BindText(metadata.filename),
                width |-> ToInt(metadata.width),
                height |-> ToInt(metadata.height),
                channels |-> ToInt(metadata.channels),
                data_size |-> ToInt(metadata.data_size),
                image_data |-> blob.bytes]
    IN  [conn EXCEPT !.tables.images = Append(@, row),
                     !.tables.sqlite_sequence.images = id,
                     !.tables.statements = Append(@, "INSERT INTO images")]

\* a slip: the feature row is bound to the row id of the feature before it
InsertKeyPointAfterLast(conn, image_id, kp) ==
    LET id == conn.tables.sqlite_sequence.keypoints + 1
        row == [id |-> id, image_id |-> id - 1, x |-> kp.x, y |-> kp.y,
                size |-> kp.size, angle |-> kp.angle,
                response |-> kp.response, octave |-> kp.octave]
    IN  [conn EXCEPT !.tables.keypoints = Append(@, row),
                     !.tables.sqlite_sequence.keypoints = id,
                     !.tables.statements = Append(@, "INSERT INTO keypoints")]

\* INSERT INTO keypoints (...) VALUES (?, ?, ?, ?, ?, ?, ?); bind_double
\* widens a float without changing its value
InsertKeyPoint(conn, image_id, kp) ==
    LET id == conn.tables.sqlite_sequence.keypoints + 1
        row == [id |-> id, image_id |-> image_id, x |-> kp.x, y |-> kp.y,
                size |-> kp.size, angle |-> kp.angle,
                response |-> kp.response, octave |-> kp.octave]
    IN  [conn EXCEPT !.tables.keypoints = Append(@, row),
                     !.tables.sqlite_sequence.keypoints = id,
                     !.tables.statements = Append(@, "INSERT INTO keypoints")]

\* INSERT INTO descriptors (image_id, descriptor_data) VALUES (?, ?): the
\* floats' memory as one blob of size() * sizeof(float) bytes
InsertDescriptors(conn, image_id, descriptors) ==
    LET id == conn.tables.sqlite_sequence.descriptors + 1
        row == [id |-> id, image_id |-> image_id,
                descriptor_data |-> [bytes |-> Len(descriptors) * SizeofFloat,
                                     floats |-> descriptors]]
    IN  [conn EXCEPT !.tables.descriptors = Append(@, row),
                     !.tables.sqlite_sequence.descriptors = id,
                     !.tables.statements =
                         Append(@, "INSERT INTO descriptors")]

\* storeProcessedData is written as the source is: a chain of steps, each
\* returning false after a ROLLBACK when sqlite reports an error.

\* a slip: a failed COMMIT returns false without the ROLLBACK
storeCommitNoRollback(conn, fault) ==
    IF fault.at = "commit"
    THEN [ok |-> FALSE, conn |-> conn]
    ELSE [ok |-> TRUE, conn |-> Commit(conn)]

\* the COMMIT and return true
storeCommit(conn, fault) ==
    IF fault.at = "commit"
    THEN [ok |-> FALSE, conn |-> Rollback(conn)]
    ELSE [ok |-> TRUE, conn |-> Commit(conn)]

\* if (!descriptors.empty()) { prepare; bind; step }
storeDescriptors(conn, image_id, descriptors, fault) ==
    IF descriptors = <<>> THEN storeCommit(conn, fault)
    ELSE IF fault.at = "prepare_descriptors"
    THEN [ok |-> FALSE, conn |-> Rollback(conn)]
    ELSE IF fault.at = "step_descriptors"
    THEN [ok |-> FALSE, conn |-> Rollback(StepFailed(conn, fault))]
    ELSE storeCommit(InsertDescriptors(conn, image_id, descriptors), fault)

\* for (const auto& kp : keypoints) { prepare; bind; step }
RECURSIVE storeKeyPoints(_, _, _, _, _, _)
storeKeyPoints(conn, image_id, keypoints, i, descriptors, fault) ==
    IF i > Len(keypoints)
    THEN storeDescriptors(conn, image_id, descriptors, fault)
    ELSE IF fault.at = "prepare_keypoint" /\ fault.index = i
    THEN [ok |-> FALSE, conn |-> Rollback(conn)]
    ELSE IF fault.at = "step_keypoint" /\ fault.index = i
    THEN [ok |-> FALSE, conn |-> Rollback(StepFailed(conn, fault))]
    ELSE storeKeyPoints(InsertKeyPoint(conn, image_id, keypoints[i]), image_id,
                        keypoints, i + 1, descriptors, fault)

\* prepare, bind and step of the image row; image_data is NOT NULL, so a
\* NULL blob makes the step fail; image_id = sqlite3_last_insert_rowid
storeImage(conn, metadata, blob, keypoints, descriptors, fault) ==
    IF fault.at = "prepare_image"
    THEN [ok |-> FALSE, conn |-> Rollback(conn)]
    ELSE IF fault.at = "step_image" \/ blob.null
    THEN [ok |-> FALSE, conn |-> Rollback(StepFailed(conn, fault))]
    ELSE storeKeyPoints(InsertImage(conn, metadata, blob),
                        conn.tables.sqlite_sequence.images + 1,
                        keypoints, 1, descriptors, fault)

\* BEGIN TRANSACTION fails when sqlite reports an error or a transaction is
\* already open; the call then returns false at once
storeProcessedData(conn, metadata, image_data, keypoints, descriptors, fault) ==
    IF fault.at = "begin" \/ conn.in_txn
    THEN [ok |-> FALSE, conn |-> conn]
    ELSE storeImage(Begin(conn), metadata,
                    BindBlob(image_data.bytes, image_data.allocated),
                    keypoints, descriptors, fault)

\* a slip: a step that yields no row is reported as -1 as well
getTotalImagesStoredOrError(conn, fault) ==
    IF fault \in {"prepare", "step"} THEN -1
    ELSE Len(conn.tables.images)

\* SELECT COUNT(*) FROM images: -1 when the statement cannot be prepared, 0
\* when the step yields no row
getTotalImagesStored(conn, fault) ==
    IF fault = "prepare" THEN -1
    ELSE IF fault = "step" THEN 0
    ELSE Len(conn.tables.images)

\* a slip: the count is taken from the images table
getTotalKeypointsStoredOfImages(conn, fault) ==
    IF fault = "prepare" THEN -1
    ELSE IF fault = "step" THEN 0
    ELSE Len(conn.tables.images)

\* SELECT COUNT(*) FROM keypoints
getTotalKeypointsStored(conn, fault) ==
    IF fault = "prepare" THEN -1
    ELSE IF fault = "step" THEN 0
    ELSE Len(conn.tables.keypoints)

\* the metadata the store is called with: an ordinary one, one whose width
\* has its highest bit set and one whose filename holds a zero byte
OrdinaryMetadata ==
    Widen(Record(CHOOSE h \in Headers : h.channels = 3, 2, 1).metadata)

StoreMetadata ==
    { OrdinaryMetadata,
      [OrdinaryMetadata EXCEPT !.width = [top |-> 1, rest |-> 0]],
      [OrdinaryMetadata EXCEPT !.filename = <<97, 0, 98>>] }

\* the payloads: one byte, and an empty vector with and without storage
StoreImages ==
    { [bytes |-> Payload(1), allocated |-> TRUE],
      [bytes |-> <<>>, allocated |-> FALSE],
      [bytes |-> <<>>, allocated |-> TRUE] }

\* no features and no descriptors, or as many as the model has
StoreFeatures ==
    { f \in EncoderFeatures : (f.keypoints = <<>>) <=> (f.descriptors = <<>>) }

StoreRecords ==
    { r \in
        { [metadata |-> [m EXCEPT !.data_size = Uint32(Len(i.bytes))],
           image_data |-> i, keypoints |-> f.keypoints,
           descriptors |-> f.descriptors] :
            m \in StoreMetadata, i \in StoreImages, f \in StoreFeatures } :
        r.metadata.filename # OrdinaryMetadata.filename
            \/ r.metadata.width # OrdinaryMetadata.width
          => r.image_data.bytes # <<>> /\ r.keypoints # <<>> }

\* the places where a sqlite call of storeProcessedData can fail
Faults ==
    {NoFault}
    \cup { [at |-> a, index |-> 0, auto |-> FALSE] :
             a \in {"begin", "prepare_image", "step_image",
                    "prepare_descriptors", "commit"} }
    \cup { [at |-> "step_descriptors", index |-> 0, auto |-> b] :
             b \in BOOLEAN }
    \cup { [at |-> a, index |-> i, auto |-> FALSE] :
             a \in {"prepare_keypoint", "step_keypoint"},
             i \in 1..MaxKeypoints }

\* the fault is met by a call with these arguments
Applies(fault, r) ==
    /\ fault.index <= Len(r.keypoints)
    /\ fault.at \in {"prepare_descriptors", "step_descriptors"}
          => r.descriptors # <<>>
    /\ r.image_data.bytes = <<>> /\ ~r.image_data.allocated
          => fault.at \in {"none", "begin", "prepare_image", "step_image"}

QueryFaults == {"none", "prepare", "step"}

\* how many rows each table holds
RowCounts(tables) ==
    [images |-> Len(tables.images), keypoints |-> Len(tables.keypoints),
     descriptors |-> Len(tables.descriptors)]

NoStats == [query |-> "none", fault |-> "none", value |-> 0]

StoreInit ==
    /\ db = NewDatabase
    /\ before = EmptyTables
    /\ history = <<>>
    /\ last_fault = NoFault
    /\ stats = NoStats

\* one call of storeProcessedData, from BEGIN to its return
StoreProcessedData ==
    /\ Len(history) < MaxStores
    /\ \E r \in StoreRecords, fault \in Faults :
         /\ Applies(fault, r)
         /\ LET s == storeProcessedData(db, r.metadata, r.image_data,
                                        r.keypoints, r.descriptors, fault)
            IN  /\ db' = s.conn
                /\ history' = Append(history,
                                     [args |-> r, ok |-> s.ok,
                                      rows |-> RowCounts(db.tables)])
         /\ last_fault' = fault
    /\ before' = db.tables
    /\ stats' = NoStats
    /\ UNCHANGED outsideStore

GetTotalImagesStored ==
    /\ history # <<>>
    /\ \E fault \in QueryFaults :
         stats' = [query |-> "images", fault |-> fault,
                   value |-> getTotalImagesStored(db, fault)]
    /\ UNCHANGED <<db, before, history, last_fault>>
    /\ UNCHANGED outsideStore

GetTotalKeypointsStored ==
    /\ history # <<>>
    /\ \E fault \in QueryFaults :
         stats' = [query |-> "keypoints", fault |-> fault,
                   value |-> getTotalKeypointsStored(db, fault)]
    /\ UNCHANGED <<db, before, history, last_fault>>
    /\ UNCHANGED outsideStore

StoreNext ==
    \/ StoreProcessedData
    \/ GetTotalImagesStored
    \/ GetTotalKeypointsStored

----------------------------------------------------------------------------
(* The three processes: Source (image_generator), Relay (feature_extractor) *)
(* and Sink (data_logger).  A process is off, crashed, or at a position of  *)
(* its loop: at "check" it tests the loop condition and, if it holds, takes *)
(* its input (the Source reads and encodes its next image; the Relay and    *)
(* the Sink wait in zmq_recv, decode what arrives, and the Relay extracts   *)
(* the features); at "publish" it is about to call zmq_send, at "persist"   *)
(* to store the record.  The start-up code of main runs as one step.  A     *)
(* subscriber socket queues what arrives while its process runs; a          *)
(* publisher that nobody is connected to drops what it is given.            *)

Stages == {"Source", "Relay", "Sink"}

\* the stage a stage receives from, and the one it publishes to
Upstream(s) == IF s = "Relay" THEN "Source" ELSE "Relay"

Downstream(s) == IF s = "Source" THEN "Relay" ELSE "Sink"

LoopPositions == {"check", "publish", "persist"}

NoHand == [bytes |-> <<>>, record |-> NoOutput]

\* a process that was never started
Off ==
    [pc |-> "off", run |-> TRUE, code |-> -1, failed |-> FALSE,
     hand |-> NoHand]

\* the calls of main that end it with return 1 when they fail
InitSteps(s) ==
    IF s = "Source"
    THEN {"zmq_ctx_new", "zmq_socket", "zmq_bind", "loadImagesFromDirectory"}
    ELSE IF s = "Relay"
    THEN {"zmq_ctx_new", "zmq_socket", "zmq_connect", "zmq_bind"}
    ELSE {"initialize", "zmq_ctx_new", "zmq_socket", "zmq_connect"}

\* a slip: the failure is logged and main goes on into its loop
startupIgnoringFailure(failure) ==
    [Off EXCEPT !.pc = "check", !.failed = (failure # "none")]

\* main up to its loop: return 1 at the first call that fails; otherwise the
\* loop is entered with the running flag true
startup(failure) ==
    IF failure # "none"
    THEN [Off EXCEPT !.code = 1, !.failed = TRUE]
    ELSE [Off EXCEPT !.pc = "check"]

\* a slip: the loop goes on whatever the flag says
loopConditionAlways(st) == TRUE

\* while (g_running) / while (running_)
loopCondition(st) == st.run

\* after the loop: clean up, return 0
leaveLoop(st) == [Off EXCEPT !.run = st.run, !.code = 0]

\* a slip: a receive that returns -1 ends the process
receivedNothingFatal(st) == [Off EXCEPT !.run = st.run, !.code = 1]

\* received == -1 (EAGAIN, EINTR or another error) or received == 0:
\* continue
receivedNothing(st) == [st EXCEPT !.pc = "check", !.hand = NoHand]

\* a slip: the message in hand is dropped but the loop does not go round
nextIterationStuck(st) == [st EXCEPT !.hand = NoHand]

\* continue, or the end of the loop body
nextIteration(st) == [st EXCEPT !.pc = "check", !.hand = NoHand]

\* the process is gone without leaving its loop
crash(st) == [Off EXCEPT !.pc = "crashed"]

\* the one image the Source has loaded, as readImageFile and getImageInfo
\* return it
SourceImage == Record(CHOOSE h \in Headers : h.channels = 1, 2, 1)

\* what the extractor returns for it
ExtractedFeatures ==
    [keypoints |-> SubSeq(SampleKeyPoints, 1, 1),
     descriptors |-> SubSeq(SampleDescriptors, 1, 1)]

\* what some other publisher on the endpoint may send: to the Relay an
\* image message cut off inside its filename, to the Sink a processed
\* message that ends with a keypoint count of 0x7F7F7F7F and no keypoints
ForeignMessage(s) ==
    IF s = "Relay"
    THEN SubSeq(serializeImageData(SourceImage.metadata,
                                   SourceImage.image_data), 1, MinMessageSize)
    ELSE SubSeq(serializeProcessedData(SourceImage.metadata,
                                       SourceImage.image_data, <<>>, <<>>),
                1, Len(serializeImageData(SourceImage.metadata,
                                          SourceImage.image_data)))
         \o <<127, 127, 127, 127>>

\* keypoints.reserve(num_keypoints) and descriptors.reserve(num_descriptors)
\* come before any check of the counts: for a count that the message does
\* not back the allocation is as large as the count says, and may throw
\* std::bad_alloc, which nothing catches
reserveMayThrow(bytes, tr) ==
    \/ tr.num_keypoints > Len(bytes) \div KeyPointSize
    \/ tr.num_descriptors > Len(bytes) \div FloatSize

\* the ways the store is made to fail under the Sink
StageFaults == {f \in Faults : f.at \in {"none", "begin", "commit"}}

Running(s) == stage[s].pc \in LoopPositions

\* zmq_send on a PUB socket: the message reaches the subscriber's queue if
\* the subscriber runs and has room, and is dropped otherwise
Deliver(s, bytes) ==
    IF Running(Downstream(s)) /\ Len(link[Downstream(s)]) < MaxPending
    THEN [link EXCEPT ![Downstream(s)] = Append(@, bytes)]
    ELSE link

\* one more publish with no subscriber, or receive with no publisher
Unanswered(absent) ==
    IF absent /\ unanswered < MaxUnanswered THEN unanswered + 1 ELSE unanswered

StageInit ==
    /\ stage = [s \in Stages |-> Off]
    /\ link = [s \in {"Relay", "Sink"} |-> <<>>]
    /\ unanswered = 0

\* a process is started, or started again; what was queued for it is gone
Start(s) ==
    /\ ~Running(s)
    /\ \E failure \in InitSteps(s) \cup {"none"} :
         stage' = [stage EXCEPT ![s] = startup(failure)]
    /\ link' = IF s = "Source" THEN link ELSE [link EXCEPT ![s] = <<>>]
    /\ UNCHANGED <<db, unanswered>>
    /\ UNCHANGED outsideStage

\* SIGINT or SIGTERM: the handler clears the running flag
Signal(s) ==
    /\ Running(s) /\ stage[s].run
    /\ stage' = [stage EXCEPT ![s].run = FALSE]
    /\ UNCHANGED <<db, link, unanswered>>
    /\ UNCHANGED outsideStage

\* the loop condition fails: cleanup and return 0
Leave(s) ==
    /\ stage[s].pc = "check" /\ ~loopCondition(stage[s])
    /\ stage' = [stage EXCEPT ![s] = leaveLoop(stage[s])]
    /\ link' = IF s = "Source" THEN link ELSE [link EXCEPT ![s] = <<>>]
    /\ UNCHANGED <<db, unanswered>>
    /\ UNCHANGED outsideStage

\* the Source reads its image and encodes it; a file that cannot be read or
\* decoded is skipped
SourceRead ==
    /\ stage["Source"].pc = "check" /\ loopCondition(stage["Source"])
    /\ \/ stage' = [stage EXCEPT !["Source"] = nextIteration(stage["Source"])]
       \/ stage' = [stage EXCEPT
                       !["Source"].pc = "publish",
                       !["Source"].hand.bytes =
                           serializeImageData(
                               [SourceImage.metadata
                                  EXCEPT !.timestamp = Ticks(now)],
                               SourceImage.image_data)]
    /\ UNCHANGED <<db, link, unanswered>>
    /\ UNCHANGED outsideStage

\* zmq_send(..., ZMQ_DONTWAIT) of the Source or the Relay: accepted, or
\* rejected (EAGAIN or another error); either way the iteration ends
Publish(s) ==
    /\ s \in {"Source", "Relay"}
    /\ stage[s].pc = "publish"
    /\ stage' = [stage EXCEPT ![s] = nextIteration(stage[s])]
    /\ \/ link' = Deliver(s, stage[s].hand.bytes)
       \/ link' = link
    /\ unanswered' = Unanswered(~Running(Downstream(s)))
    /\ UNCHANGED db
    /\ UNCHANGED outsideStage

\* zmq_recv of the Relay or the Sink returns -1 after the timeout or on an
\* error
ReceiveNothing(s) ==
    /\ s \in {"Relay", "Sink"}
    /\ stage[s].pc = "check" /\ loopCondition(stage[s])
    /\ stage' = [stage EXCEPT ![s] = receivedNothing(stage[s])]
    /\ unanswered' = Unanswered(~Running(Upstream(s)))
    /\ UNCHANGED <<db, link>>
    /\ UNCHANGED outsideStage

\* the Relay receives a message, decodes it, extracts the features and
\* encodes the result; a message that does not decode and an image that
\* cannot be processed are skipped.  A decode that read past the message may
\* end the process.
RelayReceive ==
    /\ stage["Relay"].pc = "check" /\ loopCondition(stage["Relay"])
    /\ link["Relay"] # <<>>
    /\ \E junk \in JunkBytes :
         LET st == stage["Relay"]
             bytes == Head(link["Relay"])
             r == deserializeImageData(bytes, ImageMetadata, <<>>, junk)
         IN  \/ /\ r.trace.extent > Len(bytes)
                /\ stage' = [stage EXCEPT !["Relay"] = crash(st)]
                /\ link' = [link EXCEPT !["Relay"] = <<>>]
             \/ /\ stage' = [stage EXCEPT !["Relay"] = nextIteration(st)]
                /\ link' = [link EXCEPT !["Relay"] = Tail(@)]
             \/ /\ r.ok
                /\ stage' = [stage EXCEPT
                                !["Relay"].pc = "publish",
                                !["Relay"].hand.bytes =
                                    serializeProcessedData(
                                        r.metadata, r.image_data,
                                        ExtractedFeatures.keypoints,
                                        ExtractedFeatures.descriptors)]
                /\ link' = [link EXCEPT !["Relay"] = Tail(@)]
    /\ UNCHANGED <<db, unanswered>>
    /\ UNCHANGED outsideStage

\* the Sink receives a message and decodes it; one that does not decode is
\* skipped.  A decode that read past the message, or whose reserve threw,
\* ends the process.
SinkReceive ==
    /\ stage["Sink"].pc = "check" /\ loopCondition(stage["Sink"])
    /\ link["Sink"] # <<>>
    /\ \E junk \in JunkBytes :
         LET st == stage["Sink"]
             bytes == Head(link["Sink"])
             r == deserializeProcessedData(bytes, ImageMetadata, <<>>, <<>>,
                                           <<>>, junk)
         IN  \/ /\ \/ r.trace.extent > Len(bytes)
                   \/ reserveMayThrow(bytes, r.trace)
                /\ stage' = [stage EXCEPT !["Sink"] = crash(st)]
                /\ link' = [link EXCEPT !["Sink"] = <<>>]
             \/ /\ ~r.ok
                /\ stage' = [stage EXCEPT !["Sink"] = nextIteration(st)]
                /\ link' = [link EXCEPT !["Sink"] = Tail(@)]
             \/ /\ r.ok
                /\ stage' = [stage EXCEPT
                                !["Sink"].pc = "persist",
                                !["Sink"].hand.record =
                                    [metadata |-> r.metadata,
                                     image_data |-> r.image_data,
                                     keypoints |-> r.keypoints,
                                     descriptors |-> r.descriptors]]
                /\ link' = [link EXCEPT !["Sink"] = Tail(@)]
    /\ UNCHANGED <<db, unanswered>>
    /\ UNCHANGED outsideStage

\* the Sink stores the record; a store that fails is logged
SinkPersist ==
    /\ stage["Sink"].pc = "persist"
    /\ stage' = [stage EXCEPT !["Sink"] = nextIteration(stage["Sink"])]
    /\ \E fault \in StageFaults :
         LET rec == stage["Sink"].hand.record
             image == [bytes |-> rec.image_data,
                       allocated |-> rec.image_data # <<>>]
         IN  /\ fault.at = "none" => Len(db.tables.images) < MaxRows
             /\ db' = storeProcessedData(db, Widen(rec.metadata), image,
                                         rec.keypoints, rec.descriptors,
                                         fault).conn
    /\ UNCHANGED <<link, unanswered>>
    /\ UNCHANGED outsideStage

\* another publisher on the endpoint sends a malformed message
Inject(s) ==
    /\ s \in {"Relay", "Sink"}
    /\ Running(s) /\ Len(link[s]) < MaxPending
    /\ link' = [link EXCEPT ![s] = Append(@, ForeignMessage(s))]
    /\ UNCHANGED <<stage, db, unanswered>>
    /\ UNCHANGED outsideStage

\* the steps a running process takes by itself
Iterate(s) ==
    \/ Leave(s)
    \/ (s = "Source" /\ SourceRead)
    \/ Publish(s)
    \/ ReceiveNothing(s)
    \/ (s = "Relay" /\ RelayReceive)
    \/ (s = "Sink" /\ SinkReceive)
    \/ (s = "Sink" /\ SinkPersist)

StageNext ==
    \E s \in Stages :
        \/ Start(s)
        \/ Signal(s)
        \/ Iterate(s)
        \/ Inject(s)

----------------------------------------------------------------------------
(* The pipeline end to end.  The Source is followed through main and the    *)
(* ImagePublisher object; the Relay and the Sink are up or down, and each   *)
(* of their loop iterations is one step.  Every record the Source encodes   *)
(* carries the clock value at which it was read, so a record can be told    *)
(* from every other all the way to its row.                                 *)

\* g_publisher before std::make_unique, and after the process is gone
NoPublisher ==
    [exists |-> FALSE, running_ |-> FALSE, current_index_ |-> 0,
     image_paths_ |-> <<>>, sndhwm |-> 0]

\* the send high-water mark of a socket whose ZMQ_SNDHWM was never set
\* (the default of the library)
DefaultSndHwm == 1000

\* int sndhwm = 100
SourceSndHwm == 100

\* the image file at a path: what readImageFile and getImageInfo return.
\* The second file is the larger.
ImageAt(path) ==
    IF path = 1
    THEN SourceImage
    ELSE Record(CHOOSE h \in Headers : h.channels = 3, 1, MaxPayloadLen + 1)

\* a slip: data_size is one more than the bytes read
imageMetadataOneOver(image, t) ==
    [image.metadata EXCEPT !.timestamp = Ticks(t),
                           !.data_size = Len(image.image_data) + 1]

\* metadata.timestamp = system_clock::now()...; metadata.data_size =
\* image_data.size(); metadata.filename = path.filename(); width, height and
\* channels from getImageInfo
imageMetadata(image, t) ==
    [image.metadata EXCEPT !.timestamp = Ticks(t),
                           !.data_size = Len(image.image_data)]

\* the images of the directory, in the order of their sorted paths
ImageDirectory == <<1, 2>>

\* processor.processImage on the received image: the features of the first
\* image, and none in the second
processImage(image_data) ==
    IF image_data = ImageAt(1).image_data
    THEN ExtractedFeatures
    ELSE [keypoints |-> <<>>, descriptors |-> <<>>]

\* a processed message with a filename one byte over the cap, holding zero
\* bytes
OversizedMessage ==
    serializeProcessedData(
        [SourceImage.metadata
           EXCEPT !.filename = [i \in 1..(MaxFilenameLength + 1) |-> 0]],
        SourceImage.image_data, <<>>, <<>>)

\* what another publisher on the endpoint may send
ForeignMessages(s) ==
    IF s = "Relay"
    THEN {ForeignMessage(s)}
    ELSE {ForeignMessage(s), OversizedMessage}

NoFlow ==
    [sent |-> [s \in {"Source", "Relay"} |-> <<>>],
     got |-> [s \in {"Relay", "Sink"} |-> <<>>],
     stored |-> <<>>,
     foreign |-> FALSE]

\* ImagePublisher::stop
stop(publisher) == [publisher EXCEPT !.running_ = FALSE]

\* if (g_publisher) g_publisher->stop()
signalHandler(publisher) ==
    IF publisher.exists THEN stop(publisher) ELSE publisher

\* a slip: the index is left where it is
advanceHeld(publisher) == publisher

\* current_index_ = (current_index_ + 1) % image_paths_.size()
advance(publisher) ==
    [publisher EXCEPT !.current_index_ = (@ + 1) % Len(publisher.image_paths_)]

\* a slip: the publisher keeps the message for a subscriber that is not there
HeardLater(s) == TRUE

\* zmq_send on a PUB socket that returned the message size: the message is
\* on its way to the subscriber if there is one, and gone otherwise
Heard(s) == peer[s].up

\* a slip: the Relay describes the image anew, as one channel of its bytes
processedMessageRedescribed(metadata, image_data, features) ==
    serializeProcessedData([metadata EXCEPT !.channels = 1],
                           image_data, features.keypoints,
                           features.descriptors)

\* serializeProcessedData(metadata, image_data, keypoints, descriptors) with
\* the metadata and image as decoded and the lists of processImage
processedMessage(metadata, image_data, features) ==
    serializeProcessedData(metadata, image_data, features.keypoints,
                           features.descriptors)

\* a slip: the newest message is handed to the subscriber first
enqueueFirst(queue, m) == <<m>> \o queue

\* a slip: the message is handed to the subscriber twice
enqueueTwice(queue, m) == queue \o <<m, m>>

\* a message on a connection joins the subscriber's queue behind the earlier
\* ones, and zmq_recv takes the oldest
enqueue(queue, m) == Append(queue, m)

\* a slip: a message that was not sent on, or not stored, stays to be tried
\* again
requeueRejected(queue, done) ==
    IF done THEN Tail(queue) ELSE queue

\* the message taken by zmq_recv is out of the queue, whatever is done with it
taken(queue, done) == Tail(queue)

PipelineInit ==
    /\ source = [pos |-> "off", publisher |-> NoPublisher,
                 stop_requested |-> FALSE, code |-> -1]
    /\ peer = [s \in {"Relay", "Sink"} |-> [up |-> FALSE, sndhwm |-> 0]]
    /\ wire = [s \in {"Relay", "Sink"} |-> <<>>]
    /\ flow = NoFlow

\* image_generator is started: std::signal(SIGINT, ...), std::signal(SIGTERM,
\* ...)
Launch ==
    /\ source.pos = "off" /\ source.code = -1
    /\ source' = [pos |-> "handlers", publisher |-> NoPublisher,
                  stop_requested |-> FALSE, code |-> -1]
    /\ UNCHANGED <<peer, wire, flow, now, db>>
    /\ UNCHANGED outsidePipeline

\* g_publisher = std::make_unique<ImagePublisher>(endpoint)
MakePublisher ==
    /\ source.pos = "handlers"
    /\ source' = [source EXCEPT !.pos = "created",
                                !.publisher = [NoPublisher
                                                 EXCEPT !.exists = TRUE]]
    /\ UNCHANGED <<peer, wire, flow, now, db>>
    /\ UNCHANGED outsidePipeline

\* g_publisher->initialize(): false ends main with return 1
Initialize ==
    /\ source.pos = "created"
    /\ \/ source' = [source EXCEPT !.pos = "initialized",
                                   !.publisher.sndhwm = SourceSndHwm]
       \/ source' = [source EXCEPT !.pos = "off", !.code = 1,
                                   !.publisher = NoPublisher]
    /\ UNCHANGED <<peer, wire, flow, now, db>>
    /\ UNCHANGED outsidePipeline

\* g_publisher->loadImagesFromDirectory(): false (no directory, no image)
\* ends main with return 1
LoadImages ==
    /\ source.pos = "initialized"
    /\ \/ source' = [source EXCEPT !.pos = "loaded",
                                   !.publisher.image_paths_ = ImageDirectory]
       \/ source' = [source EXCEPT !.pos = "off", !.code = 1,
                                   !.publisher = NoPublisher]
    /\ UNCHANGED <<peer, wire, flow, now, db>>
    /\ UNCHANGED outsidePipeline

\* publishImages up to its loop: running_ = true; current_index_ = 0
EnterLoop ==
    /\ source.pos = "loaded"
    /\ source' = [source EXCEPT !.pos = "loop",
                                !.publisher.running_ = TRUE,
                                !.publisher.current_index_ = 0]
    /\ UNCHANGED <<peer, wire, flow, now, db>>
    /\ UNCHANGED outsidePipeline

\* one iteration of while (running_): read the image, stamp it, encode it,
\* send it, advance the index.  A file that cannot be read or decoded is
\* skipped.
SourceIteration ==
    /\ source.pos = "loop" /\ source.publisher.running_
    /\ now < MaxFrames
    /\ now' = now + 1
    /\ LET publisher == source.publisher
           path == publisher.image_paths_[publisher.current_index_ + 1]
           image == ImageAt(path)
           buffer == serializeImageData(imageMetadata(image, now'),
                                        image.image_data)
       IN  \/ /\ source' = [source EXCEPT !.publisher =
                                              advance(publisher)]
              /\ UNCHANGED <<wire, flow>>
           \/ \E accepted \in BOOLEAN :
                LET heard == accepted /\ Heard("Relay")
                IN  /\ source' = [source EXCEPT !.publisher =
                                        advance(publisher)]
                    /\ wire' = [wire EXCEPT !["Relay"] =
                                   IF heard THEN enqueue(@, buffer) ELSE @]
                    /\ flow' = [flow EXCEPT !.sent["Source"] =
                                   Append(@, [bytes |-> buffer, from |-> path,
                                              accepted |-> accepted,
                                              heard |-> heard])]
    /\ UNCHANGED <<peer, db>>
    /\ UNCHANGED outsidePipeline

\* the loop condition fails: publishImages returns, main returns 0
SourceReturn ==
    /\ source.pos = "loop" /\ ~source.publisher.running_
    /\ source' = [source EXCEPT !.pos = "off", !.code = 0,
                                !.publisher = NoPublisher]
    /\ UNCHANGED <<peer, wire, flow, now, db>>
    /\ UNCHANGED outsidePipeline

\* SIGINT or SIGTERM reaches image_generator
SourceSignal ==
    /\ source.pos # "off"
    /\ ~source.stop_requested
    /\ source' = [source EXCEPT !.stop_requested = TRUE,
                                !.publisher = signalHandler(source.publisher)]
    /\ UNCHANGED <<peer, wire, flow, now, db>>
    /\ UNCHANGED outsidePipeline

\* feature_extractor or data_logger comes up: its sockets are new, the
\* Relay's publisher with the options main sets (ZMQ_LINGER only)
PeerStart(s) ==
    /\ ~peer[s].up
    /\ peer' = [peer EXCEPT ![s] = [up |-> TRUE,
                                    sndhwm |-> IF s = "Relay"
                                               THEN DefaultSndHwm ELSE 0]]
    /\ wire' = [wire EXCEPT ![s] = <<>>]
    /\ UNCHANGED <<source, flow, now, db>>
    /\ UNCHANGED outsidePipeline

\* it is stopped: what was queued for it is gone
PeerStop(s) ==
    /\ peer[s].up
    /\ peer' = [peer EXCEPT ![s] = [up |-> FALSE, sndhwm |-> 0]]
    /\ wire' = [wire EXCEPT ![s] = <<>>]
    /\ UNCHANGED <<source, flow, now, db>>
    /\ UNCHANGED outsidePipeline

\* one iteration of the Relay's loop that received a message: decode it,
\* extract the features, encode the result, send it
RelayIteration ==
    /\ peer["Relay"].up /\ wire["Relay"] # <<>>
    /\ \E junk \in JunkBytes :
         LET bytes == Head(wire["Relay"])
             r == deserializeImageData(bytes, ImageMetadata, <<>>, junk)
         IN  \/ /\ r.trace.extent > Len(bytes)
                /\ peer' = [peer EXCEPT !["Relay"] =
                               [up |-> FALSE, sndhwm |-> 0]]
                /\ wire' = [wire EXCEPT !["Relay"] = <<>>]
                /\ flow' = [flow EXCEPT !.got["Relay"] =
                               Append(@, [bytes |-> bytes, decoded |-> FALSE])]
             \/ /\ flow' = [flow EXCEPT !.got["Relay"] =
                               Append(@, [bytes |-> bytes, decoded |-> r.ok])]
                /\ wire' = [wire EXCEPT !["Relay"] = taken(@, FALSE)]
                /\ UNCHANGED peer
             \/ /\ r.ok
                /\ \E accepted \in BOOLEAN :
                     LET features == processImage(r.image_data)
                         processed == processedMessage(
                                          r.metadata, r.image_data, features)
                         heard == accepted /\ Heard("Sink")
                     IN  /\ flow' = [flow EXCEPT
                                       !.got["Relay"] =
                                           Append(@, [bytes |-> bytes,
                                                      decoded |-> TRUE]),
                                       !.sent["Relay"] =
                                           Append(@, [bytes |-> processed,
                                                      from |-> bytes,
                                                      accepted |-> accepted,
                                                      heard |-> heard])]
                         /\ wire' = [wire EXCEPT
                                       !["Relay"] = taken(@, accepted),
                                       !["Sink"] = IF heard
                                                   THEN enqueue(@, processed)
                                                   ELSE @]
                /\ UNCHANGED peer
    /\ UNCHANGED <<source, now, db>>
    /\ UNCHANGED outsidePipeline

\* one iteration of the Sink's loop that received a message: decode it and
\* store the record
SinkIteration ==
    /\ peer["Sink"].up /\ wire["Sink"] # <<>>
    /\ \E junk \in JunkBytes :
         LET bytes == Head(wire["Sink"])
             r == deserializeProcessedData(bytes, ImageMetadata, <<>>, <<>>,
                                           <<>>, junk)
         IN  \/ /\ \/ r.trace.extent > Len(bytes)
                   \/ reserveMayThrow(bytes, r.trace)
                /\ peer' = [peer EXCEPT !["Sink"] =
                               [up |-> FALSE, sndhwm |-> 0]]
                /\ wire' = [wire EXCEPT !["Sink"] = <<>>]
                /\ flow' = [flow EXCEPT !.got["Sink"] =
                               Append(@, [bytes |-> bytes, decoded |-> FALSE])]
                /\ UNCHANGED db
             \/ /\ ~r.ok
                /\ flow' = [flow EXCEPT !.got["Sink"] =
                               Append(@, [bytes |-> bytes, decoded |-> FALSE])]
                /\ wire' = [wire EXCEPT !["Sink"] = taken(@, FALSE)]
                /\ UNCHANGED <<peer, db>>
             \/ /\ r.ok
                /\ \E fault \in StageFaults :
                     LET image == [bytes |-> r.image_data,
                                   allocated |-> r.image_data # <<>>]
                         done == storeProcessedData(
                                     db, Widen(r.metadata), image,
                                     r.keypoints, r.descriptors, fault)
                     IN  /\ db' = done.conn
                         /\ flow' = [flow EXCEPT
                                       !.got["Sink"] =
                                           Append(@, [bytes |-> bytes,
                                                      decoded |-> TRUE]),
                                       !.stored =
                                           Append(@, [from |-> bytes,
                                                      ok |-> done.ok])]
                         /\ wire' = [wire EXCEPT
                                       !["Sink"] = taken(@, done.ok)]
                /\ UNCHANGED peer
    /\ UNCHANGED <<source, now>>
    /\ UNCHANGED outsidePipeline

\* another publisher on the endpoint sends a malformed message, once
Foreign(s) ==
    /\ peer[s].up
    /\ ~flow.foreign
    /\ \E bytes \in ForeignMessages(s) :
         wire' = [wire EXCEPT ![s] = enqueue(@, bytes)]
    /\ flow' = [flow EXCEPT !.foreign = TRUE]
    /\ UNCHANGED <<source, peer, now, db>>
    /\ UNCHANGED outsidePipeline

\* the Source from its start to its exit, stop signals included, and its
\* consumer
SourceNext ==
    \/ Launch
    \/ MakePublisher
    \/ Initialize
    \/ LoadImages
    \/ EnterLoop
    \/ SourceIteration
    \/ SourceReturn
    \/ SourceSignal
    \/ PeerStart("Relay")
    \/ PeerStop("Relay")

\* the three stages of a run in which the Source is not stopped
PipelineNext ==
    \/ Launch
    \/ MakePublisher
    \/ Initialize
    \/ LoadImages
    \/ EnterLoop
    \/ SourceIteration
    \/ \E s \in {"Relay", "Sink"} : PeerStart(s) \/ PeerStop(s) \/ Foreign(s)
    \/ RelayIteration
    \/ SinkIteration

----------------------------------------------------------------------------
(* The specifications *)

----------------------------------------------------------------------------
(* The receive call of the Relay's and the Sink's loop, by the sizes alone: *)
(* a message of some size arrives, zmq_recv stores what fits into the       *)
(* receive buffer and returns a length, and the loop copies that many bytes *)
(* out of the buffer into the message it hands to the decoder.              *)

\* std::vector<uint8_t> receive_buffer(50 * 1024 * 1024)
RelayBufferSize == 50 * 1024 * 1024

\* std::vector<uint8_t> receive_buffer(100 * 1024 * 1024)
SinkBufferSize == 100 * 1024 * 1024

\* receive_buffer.size()
receive_buffer(s) == IF s = "Relay" THEN RelayBufferSize ELSE SinkBufferSize

\* what zmq_recv is given: nothing before the timeout or an error (-1), or
\* a message of this size; a publisher may send a message of any size
ArrivingSizes(s) ==
    {-1, 0, 1, receive_buffer(s) - 1, receive_buffer(s), receive_buffer(s) + 1}

\* zmq_recv(subscriber, receive_buffer.data(), receive_buffer.size(), 0):
\* -1 on a timeout or an error; otherwise the first len bytes of the message
\* are stored in the buffer and the size of the message is returned, which
\* is more than len when the message was truncated
zmq_recv(size, len) ==
    [received |-> size,
     stored |-> IF size < 0 THEN 0 ELSE IF size < len THEN size ELSE len]

ReceiveInit ==
    inbox = [s \in {"Relay", "Sink"} |-> [pc |-> "loop", log |-> <<>>]]

\* one iteration of the loop up to the decoder: received == -1 and
\* received == 0 continue; otherwise the bytes from receive_buffer.begin() to
\* receive_buffer.begin() + received are copied into message.  When received
\* is more than the buffer holds the copy reads past the end of the buffer:
\* the process may end there, or go on with whatever bytes followed.
Receive(s) ==
    /\ inbox[s].pc = "loop"
    /\ Len(inbox[s].log) < MaxReceived
    /\ \E size \in ArrivingSizes(s) :
         LET r == zmq_recv(size, receive_buffer(s))
             entry == [size |-> size, received |-> r.received,
                       stored |-> r.stored,
                       copied |-> IF r.received \in {-1, 0}
                                  THEN 0 ELSE r.received]
         IN  \/ inbox' = [inbox EXCEPT ![s].log = Append(@, entry)]
             \/ /\ entry.copied > receive_buffer(s)
                /\ inbox' = [inbox EXCEPT ![s].log = Append(@, entry),
                                          ![s].pc = "crashed"]
    /\ UNCHANGED outsideReceive

ReceiveNext == \E s \in {"Relay", "Sink"} : Receive(s)

----------------------------------------------------------------------------
(* The fixed-width helpers over the whole width of their types.  A uint32_t *)
(* is the pair of its top bit and its low 31 bits (as in the store), a      *)
(* uint64_t the pair [hi, lo] of two such words, an int the integer itself. *)

\* (value >> (i * 8)) & 0xFF for a uint32_t, i in 0..3
ByteOf(value, i) ==
    IF i = 3 THEN value.top * 128 + Shr(value.rest, 24)
    ELSE Shr(value.rest, i * 8) % 256

\* push_back of the four bytes, (value >> 24) & 0xFF first
writeUint32Wide(buffer, value) ==
    buffer \o << ByteOf(value, 3), ByteOf(value, 2),
                 ByteOf(value, 1), ByteOf(value, 0) >>

\* for (i = 7; i >= 0; --i) push_back((value >> (i * 8)) & 0xFF)
writeUint64Wide(buffer, value) ==
    LET byte(i) == IF i >= 4 THEN ByteOf(value.hi, i - 4)
                             ELSE ByteOf(value.lo, i)
    IN  buffer \o [k \in 1..8 |-> byte(8 - k)]

\* a slip in the byte order: the first byte is taken as the least
\* significant
readUint32WideLittleEndian(data, offset) ==
    [value  |-> [top  |-> data[offset + 4] \div 128,
                 rest |-> (data[offset + 4] % 128) * 16777216
                            + data[offset + 3] * 65536
                            + data[offset + 2] * 256
                            + data[offset + 1]],
     offset |-> offset + 4]

\* (data[offset] << 24) | (data[offset + 1] << 16) | (data[offset + 2] << 8)
\* | data[offset + 3]; offset += 4
readUint32Wide(data, offset) ==
    [value  |-> [top  |-> data[offset + 1] \div 128,
                 rest |-> (data[offset + 1] % 128) * 16777216
                            + data[offset + 2] * 65536
                            + data[offset + 3] * 256
                            + data[offset + 4]],
     offset |-> offset + 4]

\* for (i = 0; i < 8; ++i) value = (value << 8) | data[offset + i];
\* offset += 8
readUint64Wide(data, offset) ==
    [value  |-> [hi |-> readUint32Wide(data, offset).value,
                 lo |-> readUint32Wide(data, offset + 4).value],
     offset |-> offset + 8]

\* static_cast<uint32_t>(kp.octave): the value modulo 2^32
ToUint32(n) ==
    IF n >= 0 THEN [top |-> 0, rest |-> n]
    ELSE [top |-> 1, rest |-> (n + 2147483647) + 1]

\* the words the helpers are tried on: 0, 1, 255, 256, 0x01020304, 2^31 - 1,
\* 2^31, 2^31 + 1, 0xFF000000 and 2^32 - 1
Words ==
    { [top |-> 0, rest |-> r] : r \in {0, 1, 255, 256, 16909060, 2147483647} }
    \cup { [top |-> 1, rest |-> r] : r \in {0, 1, 2130706432, 2147483647} }

\* the uint64_t values: every pair of 0, 1, 0x01020304, 2^31 and 2^32 - 1
Longs ==
    LET halves == { [top |-> 0, rest |-> 0], [top |-> 0, rest |-> 1],
                    [top |-> 0, rest |-> 16909060], [top |-> 1, rest |-> 0],
                    [top |-> 1, rest |-> 2147483647] }
    IN  { [hi |-> h, lo |-> l] : h \in halves, l \in halves }

\* the levels of a feature: from INT_MIN to INT_MAX
Octaves ==
    { (-2147483647) - 1, -2147483647, -256, -2, -1, 0, 1, 3, 255, 2147483647 }

\* what the buffer holds before the helper appends to it
Prefix(n) == [i \in 1..n |-> 255]

NoCell == [fn |-> "none", value |-> 0, buffer |-> <<>>, offset |-> 0,
           back |-> <<>>]

Written(fn, value, n, buffer) ==
    [fn |-> fn, value |-> value, buffer |-> buffer, offset |-> n,
     back |-> <<>>]

HelperInit == cell = NoCell

WriteUint32 ==
    /\ cell.fn = "none"
    /\ \E v \in Words, n \in 0..MaxPrefix :
         cell' = Written("uint32", v, n, writeUint32Wide(Prefix(n), v))
    /\ UNCHANGED outsideHelper

ReadUint32 ==
    /\ cell.fn = "uint32" /\ cell.back = <<>>
    /\ cell' = [cell EXCEPT !.back =
                    <<readUint32Wide(cell.buffer, cell.offset)>>]
    /\ UNCHANGED outsideHelper

WriteUint64 ==
    /\ cell.fn = "none"
    /\ \E v \in Longs, n \in 0..MaxPrefix :
         cell' = Written("uint64", v, n, writeUint64Wide(Prefix(n), v))
    /\ UNCHANGED outsideHelper

ReadUint64 ==
    /\ cell.fn = "uint64" /\ cell.back = <<>>
    /\ cell' = [cell EXCEPT !.back =
                    <<readUint64Wide(cell.buffer, cell.offset)>>]
    /\ UNCHANGED outsideHelper

\* writeUint32(buffer, static_cast<uint32_t>(kp.octave))
WriteOctave ==
    /\ cell.fn = "none"
    /\ \E v \in Octaves, n \in 0..MaxPrefix :
         cell' = Written("octave", v, n,
                         writeUint32Wide(Prefix(n), ToUint32(v)))
    /\ UNCHANGED outsideHelper

\* kp.octave = static_cast<int>(readUint32(message.data(), offset))
ReadOctave ==
    /\ cell.fn = "octave" /\ cell.back = <<>>
    /\ LET r == readUint32Wide(cell.buffer, cell.offset)
       IN  cell' = [cell EXCEPT !.back =
                       <<[value |-> ToInt(r.value), offset |-> r.offset]>>]
    /\ UNCHANGED outsideHelper

HelperNext ==
    \/ WriteUint32
    \/ ReadUint32
    \/ WriteUint64
    \/ ReadUint64
    \/ WriteOctave
    \/ ReadOctave

----------------------------------------------------------------------------
(* Specifications *)

Init ==
    /\ CodecInit
    /\ EncoderInit
    /\ StoreInit
    /\ StageInit
    /\ PipelineInit
    /\ ReceiveInit
    /\ HelperInit

CodecSpec == Init /\ [][CodecNext]_vars

EncoderSpec == Init /\ [][EncoderNext]_vars

StoreSpec == Init /\ [][StoreNext]_vars

StageSpec == Init /\ [][StageNext]_vars

SourceSpec == Init /\ [][SourceNext]_vars

PipelineSpec == Init /\ [][PipelineNext]_vars

ReceiveSpec == Init /\ [][ReceiveNext]_vars

HelperSpec == Init /\ [][HelperNext]_vars

\* what a stage that was told to stop does next, as seen on the stage
\* alone: at the loop check it leaves, anywhere else it ends its iteration
FinishStopped(s) ==
    /\ Running(s) /\ ~stage[s].run
    /\ stage' = [stage EXCEPT ![s] = IF stage[s].pc = "check"
                                     THEN leaveLoop(stage[s])
                                     ELSE nextIteration(stage[s])]

\* a running process is scheduled: the step that ends the iteration or the
\* loop of a stage told to stop is not put off for ever
StageFairSpec ==
    StageSpec /\ \A s \in Stages : WF_stage(FinishStopped(s))

----------------------------------------------------------------------------
(* Properties of the codec *)

\* a record the encoders' callers may pass: the payload is as long as
\* data_size says and the filename is within the cap
ValidRecord ==
    /\ sent.kind # "none"
    /\ sent.metadata.data_size = Len(sent.image_data)
    /\ Len(sent.metadata.filename) <= MaxFilenameLength

\* the filename length and the data size a message declares
DeclaredNameLength == readUint32(message, FixedHeaderSize - 4, 0).value

DeclaredDataSize == readUint32(message, FixedHeaderSize - 8, 0).value

\* C1: decoding the encoding of a valid image record succeeds and returns
\* the record's timestamp, width, height, channels, byte_length, name and
\* payload.
ImageRoundTrip ==
    (sent.kind = "image" /\ ValidRecord /\ mutation = "none"
        /\ decoder = "image")
    => /\ result = "ok"
       /\ out.metadata = sent.metadata
       /\ out.image_data = sent.image_data

\* C2: decoding the encoding of a valid processed record succeeds and
\* returns the same image fields, the same features in the same order and
\* the same descriptor values in the same order.
ProcessedRoundTrip ==
    (sent.kind = "processed" /\ ValidRecord /\ mutation = "none"
        /\ decoder = "processed")
    => /\ result = "ok"
       /\ out.metadata = sent.metadata
       /\ out.image_data = sent.image_data
       /\ out.keypoints = sent.keypoints
       /\ out.descriptors = sent.descriptors

\* two features, a descriptor list that is no multiple of 128, decoded
ProcessedRoundTripWitness ==
    /\ sent.kind = "processed" /\ ValidRecord /\ mutation = "none"
    /\ decoder = "processed" /\ result = "ok"
    /\ Len(sent.keypoints) = 2 /\ Len(sent.descriptors) = 1
    /\ Len(sent.image_data) = 1 /\ Len(sent.metadata.filename) = 2
    /\ out.keypoints = sent.keypoints

\* C3: the matching decoder returns failure for every shorter non-empty
\* prefix of the encoding of a valid record.
TruncationRejected ==
    (mutation = "truncated" /\ ValidRecord /\ decoder = sent.kind)
    => result = "fail"

\* C4: a decoder never reads a byte at an offset at or past the end of the
\* message.
BoundsCheckedParse ==
    decoder # "none" => trace.extent <= Len(message)

\* C5 as stated: when a decoder returns failure the output arguments hold
\* the values they held before the call, whichever check failed.
FailureLeavesOutputs ==
    result = "fail" => out = NoOutput

\* the type byte the decoder that was called expects
ExpectedType == IF decoder = "image" THEN IMAGE_DATA ELSE PROCESSED_DATA

\* the call failed at the size check or at the type check
RejectedUpFront ==
    /\ result = "fail"
    /\ \/ Len(message) < MinMessageSize
       \/ message[1] # ExpectedType

\* C5 as amended: a failure at the size check or at the type check leaves
\* every output argument as it was before the call; a failure at a later
\* check leaves metadata holding the decoded header, and
\* deserializeImageData never changes image_data when it fails.
FailureFrame ==
    /\ RejectedUpFront => out = NoOutput
    /\ (result = "fail" /\ ~RejectedUpFront)
          => /\ out.metadata.width = readUint32(message, 9, 0).value
             /\ out.metadata.data_size = DeclaredDataSize
    /\ (result = "fail" /\ decoder = "image")
          => out.image_data = NoOutput.image_data

\* a full-length message of the wrong kind was rejected, outputs untouched
FailureFrameWitness ==
    /\ decoder = "image" /\ result = "fail"
    /\ sent.kind = "processed" /\ mutation = "none"
    /\ Len(sent.keypoints) = 2
    /\ out = NoOutput

\* C6: a message that declares a filename longer than 256 bytes is rejected
\* by both decoders.
NameCapRejected ==
    (decoder # "none" /\ Len(message) >= FixedHeaderSize
        /\ DeclaredNameLength > MaxFilenameLength)
    => result = "fail"

\* C7: deserializeImageData returns failure when the number of bytes after
\* the name differs from the declared byte_length, fewer or more; on success
\* the payload has byte_length bytes and the whole input was consumed.
\* Stated for the messages whose declared name is within the cap and within
\* the input, where the decoder's handling of the name plays no part.
PayloadLengthChecked ==
    (decoder = "image"
        /\ Len(message) >= FixedHeaderSize /\ message[1] = IMAGE_DATA
        /\ DeclaredNameLength <= MaxFilenameLength
        /\ FixedHeaderSize + DeclaredNameLength <= Len(message))
    => /\ Len(message) - FixedHeaderSize - DeclaredNameLength # DeclaredDataSize
            => result = "fail"
       /\ result = "ok"
            => /\ Len(out.image_data) = out.metadata.data_size
               /\ trace.consumed = Len(message)

\* C8: deserializeImageData returns failure for every message whose first
\* byte is not 1, deserializeProcessedData for every message whose first
\* byte is not 2, whatever follows.
DiscriminantCheck ==
    /\ (decoder = "image" /\ message # <<>> /\ message[1] # IMAGE_DATA)
           => result = "fail"
    /\ (decoder = "processed" /\ message # <<>> /\ message[1] # PROCESSED_DATA)
           => result = "fail"

\* a full-length message of another kind reached each decoder's type check
DiscriminantCheckWitness ==
    /\ decoder = "image" /\ result = "fail"
    /\ sent.kind = "image" /\ mutation = "retyped"
    /\ message[1] = HEARTBEAT
    /\ Len(message) >= MinMessageSize
    /\ trace.extent = 1

MinimumLengthCheck ==
    (decoder # "none" /\ result # "crash")
    => ((result = "fail" /\ trace.extent = 0)
            <=> Len(message) < FixedHeaderSize)

\* the number four bytes stand for, most significant byte first
BigEndian(bytes) ==
    ((bytes[1] * 256 + bytes[2]) * 256 + bytes[3]) * 256 + bytes[4]

\* the four bytes of the message at a C++ offset
Field(offset) == SubSeq(message, offset + 1, offset + 4)

\* the offset of the feature count in a processed message
FeatureCountOffset ==
    29 + Len(sent.metadata.filename) + Len(sent.image_data)

\* the offset of the descriptor count in a processed message
DescriptorCountOffset == FeatureCountOffset + 4 + 24 * Len(sent.keypoints)

\* C11: the encoders' output is the type byte (1 or 2), the 8-byte
\* big-endian timestamp, width, height, channels, byte_length and name
\* length as 4-byte big-endian numbers, the name, the payload (29 + |name|
\* + |payload| bytes); a processed message goes on with the 4-byte feature
\* count, 24 bytes per feature (x, y, size, angle, response, octave) in
\* input order, the 4-byte descriptor count and 4 bytes per descriptor in
\* input order, and nothing else.
WireLayout ==
    (sent.kind # "none" /\ mutation = "none") =>
        /\ message[1] = (IF sent.kind = "image" THEN 1 ELSE 2)
        /\ BigEndian(Field(1)) = sent.metadata.timestamp.hi
        /\ BigEndian(Field(5)) = sent.metadata.timestamp.lo
        /\ BigEndian(Field(9)) = sent.metadata.width
        /\ BigEndian(Field(13)) = sent.metadata.height
        /\ BigEndian(Field(17)) = sent.metadata.channels
        /\ BigEndian(Field(21)) = sent.metadata.data_size
        /\ BigEndian(Field(25)) = Len(sent.metadata.filename)
        /\ SubSeq(message, 30, 29 + Len(sent.metadata.filename))
              = sent.metadata.filename
        /\ SubSeq(message, 30 + Len(sent.metadata.filename), FeatureCountOffset)
              = sent.image_data
        /\ sent.kind = "image" => Len(message) = FeatureCountOffset
        /\ sent.kind = "processed" =>
              /\ BigEndian(Field(FeatureCountOffset)) = Len(sent.keypoints)
              /\ \A i \in 1..Len(sent.keypoints) :
                    LET at == FeatureCountOffset + 4 + 24 * (i - 1)
                    IN  /\ BigEndian(Field(at)) = sent.keypoints[i].x
                        /\ BigEndian(Field(at + 4)) = sent.keypoints[i].y
                        /\ BigEndian(Field(at + 8)) = sent.keypoints[i].size
                        /\ BigEndian(Field(at + 12)) = sent.keypoints[i].angle
                        /\ BigEndian(Field(at + 16)) = sent.keypoints[i].response
                        /\ BigEndian(Field(at + 20)) = sent.keypoints[i].octave
              /\ BigEndian(Field(DescriptorCountOffset)) = Len(sent.descriptors)
              /\ \A j \in 1..Len(sent.descriptors) :
                    BigEndian(Field(DescriptorCountOffset + 4 + 4 * (j - 1)))
                        = sent.descriptors[j]
              /\ Len(message)
                    = DescriptorCountOffset + 4 + 4 * Len(sent.descriptors)

\* a processed record with two features and two descriptors was encoded
WireLayoutWitness ==
    /\ sent.kind = "processed" /\ mutation = "none"
    /\ Len(sent.keypoints) = 2 /\ Len(sent.descriptors) = 2
    /\ Len(sent.metadata.filename) = 2 /\ Len(sent.image_data) = 1
    /\ sent.metadata.width = 16909060
    /\ Len(message) = 96

\* the calls of the two data encoders
DataEncoderCalls ==
    { i \in 1..Len(calls) : calls[i].fn # "serializeHeartbeat" }

----------------------------------------------------------------------------
(* Properties of the DatabaseManager *)

LastCall == history[Len(history)]

PreviousCall == history[Len(history) - 1]

\* the rows this connection reads from the three tables
Rows(tables) ==
    [images |-> tables.images, keypoints |-> tables.keypoints,
     descriptors |-> tables.descriptors]

\* C13: a storeProcessedData call in which a sqlite step fails (the image
\* insert, a feature insert, the descriptor insert, the commit, or any other)
\* returns failure, and a call that returns failure leaves no transaction
\* open and the images, keypoints and descriptors tables with the rows they
\* had before the call.
AtomicPersistence ==
    history # <<>> =>
        /\ last_fault.at # "none" => ~LastCall.ok
        /\ ~LastCall.ok =>
              /\ Rows(db.tables) = Rows(before)
              /\ ~db.in_txn

\* after one record was stored, the commit of a second one with features
\* and descriptors failed
AtomicPersistenceWitness ==
    /\ Len(history) = 2
    /\ history[1].ok /\ ~history[2].ok
    /\ last_fault.at = "commit"
    /\ LastCall.args.keypoints # <<>> /\ LastCall.args.descriptors # <<>>
    /\ Len(before.images) = 1
    /\ Rows(db.tables) = Rows(before)

\* the value n as the record's uint32_t field u
Holds(n, u) == u.top = 0 /\ n = u.rest

\* the image row holds the fields and the payload of the arguments
HoldsImage(row, args) ==
    /\ Holds(row.timestamp.hi, args.metadata.timestamp.hi)
    /\ row.timestamp.lo = args.metadata.timestamp.lo
    /\ row.filename = args.metadata.filename
    /\ Holds(row.width, args.metadata.width)
    /\ Holds(row.height, args.metadata.height)
    /\ Holds(row.channels, args.metadata.channels)
    /\ Holds(row.data_size, args.metadata.data_size)
    /\ row.image_data = args.image_data.bytes

\* C14: when storeProcessedData returns success, the images table has grown
\* by exactly one row, which holds the record's image fields and payload,
\* the keypoints table by as many rows as the record has features, and the
\* descriptors table by one row if there are descriptors and by none if
\* there are not.
PersistEffect ==
    (history # <<>> /\ LastCall.ok) =>
        /\ Len(db.tables.images) = Len(before.images) + 1
        /\ HoldsImage(db.tables.images[Len(db.tables.images)], LastCall.args)
        /\ Len(db.tables.keypoints)
              = Len(before.keypoints) + Len(LastCall.args.keypoints)
        /\ Len(db.tables.descriptors)
              = Len(before.descriptors)
                  + (IF LastCall.args.descriptors # <<>> THEN 1 ELSE 0)

\* the calls that returned success
Committed == { i \in 1..Len(history) : history[i].ok }

\* the features of the first n calls that returned success
RECURSIVE CommittedKeypoints(_)
CommittedKeypoints(n) ==
    IF n = 0 THEN 0
    ELSE CommittedKeypoints(n - 1)
           + (IF history[n].ok THEN Len(history[n].args.keypoints) ELSE 0)

\* C15 as stated: after any sequence of storeProcessedData calls on a new
\* database, getTotalImagesStored returns the number of calls that returned
\* success and getTotalKeypointsStored the sum of their feature counts.
StatisticsTrackCommits ==
    /\ stats.query = "images" => stats.value = Cardinality(Committed)
    /\ stats.query = "keypoints"
          => stats.value = CommittedKeypoints(Len(history))

\* C15 as amended: that holds whenever the count query itself runs; when
\* the query cannot be prepared the getter returns -1, and when its step
\* yields no row it returns 0.
StatisticsOfCommits ==
    /\ (stats.query = "images" /\ stats.fault = "none")
          => stats.value = Cardinality(Committed)
    /\ (stats.query = "keypoints" /\ stats.fault = "none")
          => stats.value = CommittedKeypoints(Len(history))
    /\ (stats.query # "none" /\ stats.fault = "prepare") => stats.value = -1
    /\ (stats.query # "none" /\ stats.fault = "step") => stats.value = 0

\* features were counted after one call that succeeded and one that failed
\* past its feature inserts
StatisticsOfCommitsWitness ==
    /\ Len(history) = 2
    /\ history[1].ok /\ ~history[2].ok
    /\ last_fault.at = "step_descriptors"
    /\ stats.query = "keypoints" /\ stats.fault = "none"
    /\ stats.value = Len(history[1].args.keypoints)
    /\ stats.value > 0

----------------------------------------------------------------------------
(* Properties of the three processes *)

\* the step a stage is about to take depends on a peer that is not there: a
\* publish with no subscriber, or a receive with no publisher and nothing
\* queued
Starved(s) ==
    \/ /\ s # "Sink"
       /\ stage[s].pc = "publish"
       /\ ~Running(Downstream(s))
    \/ /\ s # "Source"
       /\ stage[s].pc = "check" /\ stage[s].run
       /\ ~Running(Upstream(s))
       /\ link[s] = <<>>

\* C17: a running stage whose peer is absent stays in its loop: the Source
\* and the Relay after a publish nobody is subscribed to, the Relay and the
\* Sink after a receive that no publisher feeds.
PeerAbsenceTolerated ==
    [][\A s \in Stages :
          (Starved(s) /\ stage'[s] # stage[s])
              => stage'[s].pc \in LoopPositions]_vars

\* the Source has published to nobody and the Sink has waited for nobody,
\* more than once between them, and both are still in their loops
PeerAbsenceToleratedWitness ==
    /\ unanswered = MaxUnanswered
    /\ Running("Source") /\ stage["Source"].run
    /\ ~Running("Relay")
    /\ Running("Sink") /\ stage["Sink"].run

\* C18: a stage that entered its loop is out of it only because it was told
\* to stop: it has not crashed, and if it returned 0 its running flag had
\* been cleared.
OnlyStopEnds ==
    \A s \in Stages :
        /\ stage[s].pc # "crashed"
        /\ (stage[s].pc = "off" /\ stage[s].code = 0) => ~stage[s].run

\* a stage that has been told to stop
Stopping(s) == Running(s) /\ ~stage[s].run

FatalInitialisation ==
    \A s \in Stages :
        stage[s].failed =>
            /\ stage[s].pc = "off"
            /\ stage[s].code > 0
            /\ stage[s].hand = NoHand

\* the Relay could not start between a running Source and a running Sink
FatalInitialisationWitness ==
    /\ stage["Relay"].failed /\ stage["Relay"].code = 1
    /\ Running("Source")
    /\ Running("Sink")


\* stage s has taken a step of its own (a signal only clears its flag)
Stepped(s) == [stage'[s] EXCEPT !.run = stage[s].run] # stage[s]

StopNeverLost ==
    source.stop_requested => ~source.publisher.running_

\* C30: the publisher socket of the Source, once configured, and the
\* publisher socket of the Relay, while it is up, each have a send high-water
\* mark of 100.
WatermarkOfHundred ==
    /\ source.pos \in {"initialized", "loaded", "loop"}
           => source.publisher.sndhwm = 100
    /\ peer["Relay"].up => peer["Relay"].sndhwm = 100

\* the clock value a message carries (the low half of its timestamp)
Stamp(bytes) == readUint64(bytes, 1, 0).value.lo

\* the elements of a sequence
Range(seq) == { seq[i] : i \in DOMAIN seq }

\* the clock values of the image rows
RowStamps == { row.timestamp.lo.rest : row \in Range(db.tables.images) }

Froms(log) == { e.from : e \in Range(log) }

\* C24: the Relay publishes at most once for a message it received and not
\* at all for one it could not decode; the Sink stores at most once for a
\* message it received, and never for a malformed one (truncated, or with a
\* name longer than the cap), so that no row comes from such a message.
FailedMessageHasNoEffect ==
    /\ Cardinality(Froms(flow.sent["Relay"])) = Len(flow.sent["Relay"])
    /\ Cardinality(Froms(flow.stored)) = Len(flow.stored)
    /\ \A g \in Range(flow.got["Relay"]) :
         ~g.decoded => g.bytes \notin Froms(flow.sent["Relay"])
    /\ \A g \in Range(flow.got["Sink"]) :
         ~g.decoded => g.bytes \notin Froms(flow.stored)
    /\ \A m \in ForeignMessages("Relay") : m \notin Froms(flow.sent["Relay"])
    /\ \A m \in ForeignMessages("Sink") : m \notin Froms(flow.stored)
    /\ \A row \in Range(db.tables.images) :
         \E t \in Range(flow.stored) :
            /\ t.ok
            /\ t.from \notin ForeignMessages("Sink")
            /\ Stamp(t.from) = row.timestamp.lo.rest

RECURSIVE IsSubsequence(_, _)
IsSubsequence(sub, seq) ==
    IF sub = <<>> THEN TRUE
    ELSE IF seq = <<>> THEN FALSE
    ELSE IF Head(sub) = Head(seq)
         THEN IsSubsequence(Tail(sub), Tail(seq))
         ELSE IsSubsequence(sub, Tail(seq))

\* the clock values of the records the Source has published, in order
PublishedStamps ==
    [i \in DOMAIN flow.sent["Source"] |-> Stamp(flow.sent["Source"][i].bytes)]

\* the clock values of the image rows, in the order of their identifiers
StoredStamps ==
    [i \in DOMAIN db.tables.images |-> db.tables.images[i].timestamp.lo.rest]

\* C26: the Relay sends on in the order it received and the Sink stores in
\* the order it received; the image rows are in the order of their
\* identifiers, and those of them that hold a record of the Source, taken in
\* that order, are a subsequence of the records the Source published (all of
\* them are, when no other publisher has sent anything).
OrderPreserved ==
    /\ IsSubsequence([i \in DOMAIN flow.sent["Relay"] |->
                          flow.sent["Relay"][i].from],
                     [i \in DOMAIN flow.got["Relay"] |->
                          flow.got["Relay"][i].bytes])
    /\ IsSubsequence([i \in DOMAIN flow.stored |-> flow.stored[i].from],
                     [i \in DOMAIN flow.got["Sink"] |->
                          flow.got["Sink"][i].bytes])
    /\ \A i \in 1..(Len(db.tables.images) - 1) :
         db.tables.images[i].id < db.tables.images[i + 1].id
    /\ IsSubsequence(SelectSeq(StoredStamps,
                               LAMBDA t : t \in Range(PublishedStamps)),
                     PublishedStamps)
    /\ ~flow.foreign => IsSubsequence(StoredStamps, PublishedStamps)

\* the two records the Source published are the two rows, in that order
OrderPreservedWitness ==
    /\ Len(StoredStamps) = 2
    /\ StoredStamps = PublishedStamps
    /\ StoredStamps[1] # StoredStamps[2]
    /\ ~flow.foreign

\* how many entries of a log of messages carry clock value t and pass Test
Count(log, t, Test(_)) ==
    Cardinality({ i \in DOMAIN log : Stamp(log[i].bytes) = t /\ Test(log[i]) })

Accepted(e) == e.accepted

Decoded(e) == e.decoded

\* C27: for every record the Source has published, there is at most one
\* accepted send of it by the Source, at most as many decodes of it by the
\* Relay, at most as many accepted sends of it by the Relay, and at most as
\* many rows; with no other publisher on the endpoints the same holds of the
\* totals.
AtMostOnce ==
    /\ \A t \in Range(PublishedStamps) :
         /\ Count(flow.sent["Source"], t, Accepted) <= 1
         /\ Count(flow.got["Relay"], t, Decoded)
                <= Count(flow.sent["Source"], t, Accepted)
         /\ Count(flow.sent["Relay"], t, Accepted)
                <= Count(flow.got["Relay"], t, Decoded)
         /\ Cardinality({ i \in DOMAIN StoredStamps : StoredStamps[i] = t })
                <= Count(flow.sent["Relay"], t, Accepted)
    /\ ~flow.foreign =>
         /\ Len(db.tables.images)
                <= Cardinality({ i \in DOMAIN flow.sent["Relay"] :
                                    flow.sent["Relay"][i].accepted })
         /\ Cardinality({ i \in DOMAIN flow.sent["Relay"] :
                             flow.sent["Relay"][i].accepted })
                <= Cardinality({ i \in DOMAIN flow.got["Relay"] :
                                    flow.got["Relay"][i].decoded })
         /\ Cardinality({ i \in DOMAIN flow.got["Relay"] :
                             flow.got["Relay"][i].decoded })
                <= Cardinality({ i \in DOMAIN flow.sent["Source"] :
                                    flow.sent["Source"][i].accepted })

\* two records were accepted from the Source and decoded by the Relay, one
\* of them was accepted from the Relay and is a row, the other was not
AtMostOnceWitness ==
    /\ ~flow.foreign
    /\ Len(flow.sent["Source"]) = 2
    /\ Cardinality({ i \in DOMAIN flow.got["Relay"] :
                        flow.got["Relay"][i].decoded }) = 2
    /\ Cardinality({ i \in DOMAIN flow.sent["Relay"] :
                        flow.sent["Relay"][i].accepted }) = 1
    /\ Len(db.tables.images) = 1

\* the messages a stage has published
Published(s) == { e.bytes : e \in Range(flow.sent[s]) }

\* C28: every message the Source has published is one deserializeImageData
\* accepts, and every message the Relay has published is one
\* deserializeProcessedData accepts; and the stage that received such a
\* message did decode it.
PublishedIsAccepted ==
    /\ \A m \in Published("Source"), junk \in JunkBytes :
         deserializeImageData(m, ImageMetadata, <<>>, junk).ok
    /\ \A m \in Published("Relay"), junk \in JunkBytes :
         deserializeProcessedData(m, ImageMetadata, <<>>, <<>>, <<>>,
                                  junk).ok
    /\ \A g \in Range(flow.got["Relay"]) :
         g.bytes \in Published("Source") => g.decoded
    /\ \A g \in Range(flow.got["Sink"]) :
         g.bytes \in Published("Relay") => g.decoded

\* the Sink has decoded two messages of the Relay, one with features and one
\* with empty lists, made from two messages of the Source
PublishedIsAcceptedWitness ==
    \E g \in Range(flow.got["Sink"]), h \in Range(flow.got["Sink"]) :
        /\ g.decoded /\ h.decoded
        /\ {g.bytes, h.bytes} \subseteq Published("Relay")
        /\ deserializeProcessedData(g.bytes, ImageMetadata, <<>>, <<>>, <<>>,
                                    0).keypoints = <<>>
        /\ deserializeProcessedData(h.bytes, ImageMetadata, <<>>, <<>>, <<>>,
                                    0).keypoints # <<>>

\* C29: a message the Relay has published is a processed message that holds,
\* byte for byte after the type byte, the image message it was made from
\* (timestamp, width, height, channels, byte_length, name and payload), which
\* is one the Source published; what follows is the encoding of the features
\* and descriptors alone, and the decoded fields are those the Source's
\* message decodes to.
ImageForwardedUnchanged ==
    \A f \in Range(flow.sent["Relay"]) :
        LET image == deserializeImageData(f.from, ImageMetadata, <<>>, 0)
            processed == deserializeProcessedData(f.bytes, ImageMetadata,
                                                  <<>>, <<>>, <<>>, 0)
        IN  /\ f.from \in Published("Source")
            /\ f.bytes[1] = PROCESSED_DATA
            /\ SubSeq(f.bytes, 2, Len(f.from)) = SubSeq(f.from, 2, Len(f.from))
            /\ SubSeq(f.bytes, Len(f.from) + 1, Len(f.bytes))
                   = writeDescriptors(
                         writeUint32(
                             writeKeyPoints(
                                 writeUint32(<<>>, Len(processed.keypoints)),
                                 processed.keypoints),
                             Len(processed.descriptors)),
                         processed.descriptors)
            /\ processed.metadata = image.metadata
            /\ processed.image_data = image.image_data

\* the Relay has forwarded both images of the Source, one of three channels
\* with no features and one of one channel with features
ImageForwardedUnchangedWitness ==
    /\ Len(flow.sent["Relay"]) = 2
    /\ \E f \in Range(flow.sent["Relay"]) :
         /\ deserializeImageData(f.from, ImageMetadata, <<>>, 0)
                .metadata.channels = 3
         /\ f.accepted
    /\ \E f \in Range(flow.sent["Relay"]) :
         deserializeProcessedData(f.bytes, ImageMetadata, <<>>, <<>>, <<>>, 0)
             .keypoints # <<>>

\* the rows a table has gained since the call began
Gained(rows, old) == SubSeq(rows, Len(old) + 1, Len(rows))

Storable(args) ==
    ~BindBlob(args.image_data.bytes, args.image_data.allocated).null

Counted(tables, query) ==
    IF query = "images" THEN tables.images ELSE tables.keypoints

\* C33 as stated: a statistics query returns the current number of rows of
\* its table, or -1, and -1 only when the query could not be prepared.
StatisticsCurrentRows ==
    stats.query # "none" =>
        /\ stats.value = -1 => stats.fault = "prepare"
        /\ stats.value # -1 =>
              stats.value = Len(Counted(db.tables, stats.query))

\* C33 as amended: getTotalImagesStored and getTotalKeypointsStored change
\* nothing in the database and leave no transaction open; each returns -1
\* exactly when its query cannot be prepared, 0 when the step of the query
\* yields no row, and the current number of rows of its table otherwise.
StatisticsReadOnly ==
    [][stats' # stats /\ stats'.query # "none" =>
          /\ db' = db
          /\ ~db'.in_txn
          /\ stats'.value = -1 <=> stats'.fault = "prepare"
          /\ stats'.fault = "step" => stats'.value = 0
          /\ stats'.fault = "none" =>
                stats'.value = Len(Counted(db.tables, stats'.query))]_vars

\* the images were counted with two records and their features stored
StatisticsReadOnlyWitness ==
    /\ Len(history) = 2
    /\ history[1].ok /\ history[2].ok
    /\ stats.query = "images" /\ stats.fault = "none"
    /\ stats.value = 2
    /\ Len(db.tables.images) = 2
    /\ Len(db.tables.keypoints) > 0

\* C34: with n images loaded the Source's index is in 0..n-1; entering the
\* loop of publishImages sets it to 0; every iteration of the loop, whether
\* it skipped the image, sent it or had it rejected, moves the index by one
\* modulo n, and an iteration that sent took the image at the index, so the
\* sorted images are attempted in turn, again and again.
SourceCycles ==
    /\ [](source.publisher.image_paths_ # <<>> =>
             source.publisher.current_index_
                \in 0..(Len(source.publisher.image_paths_) - 1))
    /\ [][/\ source.pos = "loaded" /\ source'.pos = "loop" =>
                source'.publisher.current_index_ = 0
          /\ source.pos = "loop" /\ now' # now =>
                /\ source'.publisher.current_index_
                      = (source.publisher.current_index_ + 1)
                           % Len(source.publisher.image_paths_)
                /\ source'.publisher.image_paths_ = ImageDirectory
                /\ Len(flow'.sent["Source"]) > Len(flow.sent["Source"]) =>
                      flow'.sent["Source"][Len(flow'.sent["Source"])].from
                         = ImageDirectory[source.publisher.current_index_ + 1]
         ]_vars

\* two iterations took the first image and then the second one, the first
\* rejected and the second accepted, and the index is back at the first
SourceCyclesWitness ==
    /\ source.pos = "loop"
    /\ Len(flow.sent["Source"]) = 2
    /\ flow.sent["Source"][1].from = ImageDirectory[1]
    /\ flow.sent["Source"][2].from = ImageDirectory[2]
    /\ ~flow.sent["Source"][1].accepted
    /\ flow.sent["Source"][2].accepted
    /\ source.publisher.current_index_ = 0

\* C35: when deserializeProcessedData meets a declared name length above
\* 256 it takes an empty name and goes on behind the name's bytes, so that
\* the payload, the features and the descriptors come out as they were
\* encoded and the whole message is consumed.
OversizedNameSkipped ==
    (decoder = "processed" /\ sent.kind = "processed" /\ mutation = "none"
        /\ Len(sent.metadata.filename) > MaxFilenameLength
        /\ result # "crash")
    => /\ result = "ok"
       /\ out.metadata.filename = <<>>
       /\ out.image_data = sent.image_data
       /\ out.keypoints = sent.keypoints
       /\ out.descriptors = sent.descriptors
       /\ trace.consumed = Len(message)

\* the kind of message an encoder makes
KindOf(fn) ==
    CASE fn = "serializeImageData" -> IMAGE_DATA
      [] fn = "serializeProcessedData" -> PROCESSED_DATA
      [] fn = "serializeHeartbeat" -> HEARTBEAT

\* C36: getMessageType of what serializeImageData returned is IMAGE_DATA, of
\* what serializeProcessedData returned PROCESSED_DATA, of what
\* serializeHeartbeat returned HEARTBEAT, in each case the message's first
\* byte; of the empty message it is SHUTDOWN.
MessageKindLookup ==
    /\ \A i \in 1..Len(calls) :
          /\ getMessageType(calls[i].buffer) = KindOf(calls[i].fn)
          /\ getMessageType(calls[i].buffer) = calls[i].buffer[1]
    /\ message = <<>> => getMessageType(message) = SHUTDOWN

\* a heartbeat and a processed record were encoded and looked up, and no
\* message has been built in the codec's buffer
MessageKindLookupWitness ==
    /\ Len(calls) = 2
    /\ calls[1].fn = "serializeHeartbeat"
    /\ calls[2].fn = "serializeProcessedData"
    /\ getMessageType(calls[1].buffer) = HEARTBEAT
    /\ getMessageType(calls[2].buffer) = PROCESSED_DATA
    /\ message = <<>>

\* C37: whatever arrives, the Relay and the Sink copy no more bytes out of
\* their receive buffer than the buffer holds (50 MB and 100 MB), and a
\* message longer than the buffer never makes them read past its end.
CopyWithinReceiveBuffer ==
    \A s \in {"Relay", "Sink"} :
        /\ inbox[s].pc # "crashed"
        /\ \A i \in 1..Len(inbox[s].log) :
              inbox[s].log[i].copied <= receive_buffer(s)

\* the four bytes are the word, most significant byte first
MostSignificantFirst(bytes, value) ==
    /\ Len(bytes) = 4
    /\ \A k \in 1..4 : bytes[k] \in 0..255
    /\ bytes[1] = value.top * 128 + value.rest \div 16777216
    /\ value.rest % 16777216 = bytes[2] * 65536 + bytes[3] * 256 + bytes[4]

\* the helper appended n bytes to what the buffer held
Appended(n) ==
    /\ Len(cell.buffer) = cell.offset + n
    /\ SubSeq(cell.buffer, 1, cell.offset) = Prefix(cell.offset)

\* the helper read the value back and moved the offset by n
ReadBack(n) ==
    cell.back # <<>> =>
        /\ cell.back[1].value = cell.value
        /\ cell.back[1].offset = cell.offset + n

\* C38: writeUint32 appends the four bytes of its value, most significant
\* first, and readUint32 at their offset returns the value and moves the
\* offset by 4, for values up to 2^32 - 1; writeUint64 and readUint64 do the
\* same with eight bytes, for values up to 2^64 - 1; and a feature's level,
\* negative or not, written as static_cast<uint32_t> and read back as
\* static_cast<int>, comes back as it was.
FixedWidthRoundTrip ==
    /\ cell.fn = "uint32" =>
          /\ Appended(4)
          /\ MostSignificantFirst(SubSeq(cell.buffer, cell.offset + 1, cell.offset + 4),
                       cell.value)
          /\ ReadBack(4)
    /\ cell.fn = "uint64" =>
          /\ Appended(8)
          /\ MostSignificantFirst(SubSeq(cell.buffer, cell.offset + 1, cell.offset + 4),
                       cell.value.hi)
          /\ MostSignificantFirst(SubSeq(cell.buffer, cell.offset + 5, cell.offset + 8),
                       cell.value.lo)
          /\ ReadBack(8)
    /\ cell.fn = "octave" =>
          /\ Appended(4)
          /\ MostSignificantFirst(SubSeq(cell.buffer, cell.offset + 1, cell.offset + 4),
                       ToUint32(cell.value))
          /\ ReadBack(4)

\* the most negative level was written behind a byte of the buffer as
\* 0x80000000 and read back
FixedWidthRoundTripWitness ==
    /\ cell.fn = "octave"
    /\ cell.value = (-2147483647) - 1
    /\ cell.offset = 1
    /\ cell.buffer = <<255, 128, 0, 0, 0>>
    /\ cell.back # <<>>
    /\ cell.back[1].value < 0

====
